---------------------------- MODULE Spec2Model ----------------------------
(***************************************************************************)
(* Model of the design.appclub.dev streaming engine:                       *)
(*   - the Document Store          (composables/useProjectState.ts)        *)
(*   - the tool event handler      (composables/chat/handleToolEvents.ts)  *)
(*   - the SSE decode loop         (composables/chat/parseSSEStream.ts)    *)
(*   - the chat turn               (composables/useChatAgent.ts)           *)
(*   - the early id extraction     (server/api/chat.post.ts)               *)
(*                                                                         *)
(* JavaScript strings that the code only compares or stores are TLA+       *)
(* strings.  Text that the code scans (the wire, the argument buffer, the  *)
(* assistant content) is a sequence of one-symbol strings.                 *)
(* Arrays that the code mutates in place live in `heap`, addressed by a    *)
(* reference, so that sharing an array between the live screen set and a   *)
(* history entry is visible in the model.                                  *)
(***************************************************************************)
EXTENDS Integers, Sequences, FiniteSets, TLC

VARIABLES
    \* useProjectState
    heap,                 \* array objects: reference -> sequence of Screen
    screens,              \* screens.value: reference of the live array
    history,              \* history.value: sequence of HistoryItem
    editingScreenId,      \* _editingScreenId.value
    isDesigning,          \* _isDesigning.value
    \* useChatAgent / handleSubmit
    pc,                   \* position of handleSubmit
    isLoading,            \* isLoading.value
    messages,             \* messages.value
    content,              \* assistantMessage.content
    toolInvocations,      \* assistantMessage.toolInvocations
    toolCallIdToScreenId, \* Map<string, string>
    \* parseSSEStream and its reader
    body,                 \* the bytes of the response body, as the server sent them
    wire,                 \* bytes the transport has not delivered yet
    pending,              \* TextDecoder: bytes of an unfinished character
    buffer,               \* buffer
    done,                 \* done
    streamDone,           \* streamDone
    splits,               \* where reads have cut the body so far
    \* server/api/chat.post.ts
    upsertInputBuffers,   \* Map<string, string>
    sentEditingStart,     \* Set<string>
    written,              \* what writer.write was called with, in order
    nDeltas,              \* how many input deltas have arrived
    inputDeltas,          \* the calls of onInputDelta so far, in order
    requestScreens,       \* screens of the request body, as createTools got it
    toolResults,          \* the tool executions of the request so far, in order
    \* observation
    lastOp,               \* the operation or event the last step performed
    delivered,            \* the chunks handed to onChunk, in order
    errors,               \* the payloads reported through onError, in order
    priorScreens,         \* the screen set as it was before each recorded upsert
    rur,                  \* progress of a restore / upsert / restore sequence
    nDispatched,          \* how many chunks were handed to onChunk
    calls                 \* per toolCallId of the turn: what its events have been so far

storeVars  == <<heap, screens, history, editingScreenId, isDesigning>>
turnVars   == <<pc, isLoading, messages, content, toolInvocations,
               toolCallIdToScreenId>>
sseVars    == <<body, wire, pending, buffer, done, streamDone, splits>>
serverVars == <<upsertInputBuffers, sentEditingStart, written, nDeltas, inputDeltas,
                requestScreens, toolResults>>
obsVars    == <<lastOp, delivered, errors, priorScreens, rur, nDispatched, calls>>
vars       == <<storeVars, turnVars, sseVars, serverVars, obsVars>>

-----------------------------------------------------------------------------
(* Bounds of the model *)

MaxHistory == 2
MaxEvents == 4
MaxContent == 4
MaxDeltas == 5
MaxToolCalls == 3
MaxTurns == 2

-----------------------------------------------------------------------------
(* JavaScript values *)

Undefined == "undefined"
Null == "null"

Max(a, b) == IF a >= b THEN a ELSE b

\* Array.prototype.findIndex(s => s.id === id), 1-based; 0 stands for -1.
FindIndex(arr, id) ==
    IF \E i \in 1..Len(arr) : arr[i].id = id
    THEN CHOOSE i \in 1..Len(arr) :
            /\ arr[i].id = id
            /\ \A j \in 1..(i - 1) : arr[j].id # id
    ELSE 0

\* { ...a, ...b }: every own property of b overwrites that of a.
Spread(a, b) ==
    [f \in (DOMAIN a) \cup (DOMAIN b) |-> IF f \in DOMAIN b THEN b[f] ELSE a[f]]

\* JSON.parse(JSON.stringify(v)) for one property value: strings and finite
\* numbers are written and read back as themselves.
JsonValue(v) == v

\* JSON.parse(JSON.stringify(o)) for an object: a fresh object holding every
\* own property of o.
JsonObject(o) == [f \in DOMAIN o |-> JsonValue(o[f])]

\* JSON.parse(JSON.stringify(arr)) for an array of objects.
JsonArray(arr) == [i \in 1..Len(arr) |-> JsonObject(arr[i])]

-----------------------------------------------------------------------------
(* Document Store: composables/useProjectState.ts *)

WelcomeHtml == "<h1>Welcome to App Club Design</h1>"

InitialScreens ==
    << [id |-> "welcome", name |-> "Welcome Screen", html |-> WelcomeHtml,
        css |-> "", x |-> 100, y |-> 100] >>

ScreenWidth == 400
ScreenMargin == 50
DefaultY == 50

\* A reference no object of h uses.
FreshRef(h) == CHOOSE r \in 1..(Cardinality(DOMAIN h) + 1) : r \notin DOMAIN h

\* The references the program holds, in the order live array, history[0],
\* history[1], ...
Roots(live, hist) == <<live>> \o [i \in 1..Len(hist) |-> hist[i].screens]

\* The address of an object carries no meaning.  After each operation the
\* objects the program can still reach are renumbered in the order of
\* Roots, and the others (garbage) are dropped; which references are equal
\* and which differ is kept.
Renumber(live, hist, r) ==
    LET roots == Roots(live, hist)
        first == CHOOSE i \in 1..Len(roots) :
                    roots[i] = r /\ \A j \in 1..(i - 1) : roots[j] # r
    IN  Cardinality({roots[j] : j \in 1..first})

Collect(h, live, hist) ==
    LET roots == Roots(live, hist)
        refs  == {roots[i] : i \in 1..Len(roots)}
    IN  [heap |-> [n \in 1..Cardinality(refs) |->
                     h[CHOOSE r \in refs : Renumber(live, hist, r) = n]],
         screens |-> Renumber(live, hist, live),
         history |-> [i \in 1..Len(hist) |->
                        [hist[i] EXCEPT !.screens = Renumber(live, hist, @)]]]

\* A deep copy of the array at r as a new array object that shares nothing
\* with it.  Result: the heap and the reference of the copy.
DeepCopy_Alias(h, r) == [heap |-> h, ref |-> r]

DeepCopy(h, r) ==
    LET n == FreshRef(h)
    IN  [heap |-> [q \in (DOMAIN h) \cup {n} |-> IF q = n THEN JsonArray(h[r]) ELSE h[q]],
         ref |-> n]

\* history.value.push({ timestamp: Date.now(), screens: <deep copy> })
PushHistory_Always(h, live, hist, t, skipHistory) ==
    LET c == DeepCopy(h, live)
    IN  [heap |-> c.heap,
         history |-> Append(hist, [timestamp |-> t, screens |-> c.ref])]

PushHistory(h, live, hist, t, skipHistory) ==
    IF ~skipHistory
    THEN LET c == DeepCopy(h, live)
         IN  [heap |-> c.heap,
              history |-> Append(hist, [timestamp |-> t, screens |-> c.ref])]
    ELSE [heap |-> h, history |-> hist]

\* screens.value.reduce((max, s) => Math.max(max, s.x + 400), 0)
RECURSIVE MaxX(_)
MaxX(arr) ==
    IF arr = << >> THEN 0
    ELSE Max(MaxX(SubSeq(arr, 1, Len(arr) - 1)), arr[Len(arr)].x + ScreenWidth)

\* The defaults of a new screen, placed at the right edge of the last screen
\* of the array.
NewScreenDefaults_AfterLast(arr) ==
    [name |-> "Untitled Screen", html |-> "", css |-> "",
     x |-> IF arr = << >> THEN ScreenMargin
           ELSE arr[Len(arr)].x + ScreenWidth + ScreenMargin,
     y |-> DefaultY]

NewScreenDefaults(arr) ==
    [name |-> "Untitled Screen", html |-> "", css |-> "",
     x |-> MaxX(arr) + ScreenMargin, y |-> DefaultY]

\* The mutation of the live array: merge into the slot, or push a new screen.
ApplyUpsert_AlwaysPush(arr, screen) ==
    Append(arr, Spread(NewScreenDefaults(arr), screen))

\* The mutation with a slot that is rebuilt from the defaults.
ApplyUpsert_FromDefaults(arr, screen) ==
    LET index == FindIndex(arr, screen.id)
    IN  IF index > 0
        THEN [arr EXCEPT ![index] = Spread(NewScreenDefaults(arr), screen)]
        ELSE Append(arr, Spread(NewScreenDefaults(arr), screen))

\* The mutation with a merge that places the screen anew.
ApplyUpsert_Reposition(arr, screen) ==
    LET index == FindIndex(arr, screen.id)
    IN  IF index > 0
        THEN [arr EXCEPT ![index] =
                Spread(Spread(arr[index], screen),
                       [x |-> MaxX(arr) + ScreenMargin, y |-> DefaultY])]
        ELSE Append(arr, Spread(NewScreenDefaults(arr), screen))

ApplyUpsert(arr, screen) ==
    LET index == FindIndex(arr, screen.id)
    IN  IF index > 0
        THEN [arr EXCEPT ![index] = Spread(arr[index], screen)]
        ELSE Append(arr, Spread(NewScreenDefaults(arr), screen))

\* upsertScreen(screen, options) with Date.now() = t.
\* Result: the heap, screens.value and history.value afterwards.
UpsertScreenResult_MutateFirst(h, live, hist, screen, skipHistory, t) ==
    LET h1 == [h EXCEPT ![live] = ApplyUpsert(h[live], screen)]
        p  == PushHistory(h1, live, hist, t, skipHistory)
    IN  Collect(p.heap, live, p.history)

UpsertScreenResult(h, live, hist, screen, skipHistory, t) ==
    LET p == PushHistory(h, live, hist, t, skipHistory)
    IN  Collect([p.heap EXCEPT ![live] = ApplyUpsert(p.heap[live], screen)],
                live, p.history)

\* history.value[index] is an element (index is a JavaScript, 0-based, index).
HasVersion(hist, index) == index \in 0..(Len(hist) - 1)

\* restoreVersion(index).
\* Result: the heap, screens.value and history.value afterwards.
RestoreVersionResult_NoCopy(h, live, hist, index) ==
    IF HasVersion(hist, index)
    THEN Collect(h, hist[index + 1].screens, hist)
    ELSE [heap |-> h, screens |-> live, history |-> hist]

\* restoreVersion(index) that empties the screens when there is no such entry.
RestoreVersionResult_ClearsOnMiss(h, live, hist, index) ==
    IF HasVersion(hist, index)
    THEN LET c == DeepCopy(h, hist[index + 1].screens)
         IN  Collect(c.heap, c.ref, hist)
    ELSE [heap |-> [h EXCEPT ![live] = << >>], screens |-> live, history |-> hist]

RestoreVersionResult(h, live, hist, index) ==
    IF HasVersion(hist, index)
    THEN LET c == DeepCopy(h, hist[index + 1].screens)
         IN  Collect(c.heap, c.ref, hist)
    ELSE [heap |-> h, screens |-> live, history |-> hist]

\* restoreVersion(arg) for an argument that is a number or undefined:
\* history.value[undefined] is undefined, as is history.value[index] for a
\* number that is no index of the array.
HasVersionAt(hist, arg) == arg.type = "number" /\ HasVersion(hist, arg.value)

RestoreVersionAt(h, live, hist, arg) ==
    IF HasVersionAt(hist, arg)
    THEN RestoreVersionResult(h, live, hist, arg.value)
    ELSE [heap |-> h, screens |-> live, history |-> hist]

\* The value of the live screen set and of a history entry's snapshot.
Live == heap[screens]
Snapshot(i) == heap[history[i].screens]

-----------------------------------------------------------------------------
(* Tool event handler: composables/chat/handleToolEvents.ts *)

\* Map.prototype.set and Map.prototype.delete on a Map<string, string>.
MapSet(m, k, v) == [j \in (DOMAIN m) \cup {k} |-> IF j = k THEN v ELSE m[j]]
MapDelete(m, k) == [j \in (DOMAIN m) \ {k} |-> m[j]]

\* assistantMessage.toolInvocations.find(i => i.toolCallId === toolCallId),
\* as a 1-based index; 0 when there is none.
FindInvocation(invs, toolCallId) ==
    IF \E i \in 1..Len(invs) : invs[i].toolCallId = toolCallId
    THEN CHOOSE i \in 1..Len(invs) :
            /\ invs[i].toolCallId = toolCallId
            /\ \A j \in 1..(i - 1) : invs[j].toolCallId # toolCallId
    ELSE 0

\* getOrCreateInvocation(toolCallId, toolName): the invocations afterwards and
\* the index of the one returned.
GetOrCreateInvocation_Duplicate(invs, toolCallId, toolName) ==
    [invs |-> Append(invs, [toolCallId |-> toolCallId, toolName |-> toolName,
                            state |-> "call"]),
     at |-> Len(invs) + 1]

GetOrCreateInvocation(invs, toolCallId, toolName) ==
    LET e == FindInvocation(invs, toolCallId)
    IN  IF e > 0
        THEN [invs |-> IF toolName # Undefined /\ invs[e].toolName = Undefined
                       THEN [invs EXCEPT ![e].toolName = toolName]
                       ELSE invs,
              at |-> e]
        ELSE [invs |-> Append(invs, [toolCallId |-> toolCallId,
                                     toolName |-> toolName, state |-> "call"]),
              at |-> Len(invs) + 1]

\* The state a chunk handler works on, as one record.
HandlerState ==
    [content |-> content, toolInvocations |-> toolInvocations,
     toolCallIdToScreenId |-> toolCallIdToScreenId,
     heap |-> heap, screens |-> screens, history |-> history,
     editingScreenId |-> editingScreenId, isDesigning |-> isDesigning,
     awaited |-> FALSE, effect |-> "none"]

\* st after upsertScreen(screen, { skipHistory }) was called from a handler.
WithUpsert(st, screen, skipHistory, t) ==
    LET r == UpsertScreenResult(st.heap, st.screens, st.history, screen, skipHistory, t)
    IN  [st EXCEPT !.heap = r.heap, !.screens = r.screens, !.history = r.history]

\* st after a restoreVersion(index) that first records the screens it replaces.
WithRestore_Snapshot(st, index) ==
    LET p == PushHistory(st.heap, st.screens, st.history, 1000, FALSE)
        r == RestoreVersionResult(p.heap, st.screens, p.history, index)
    IN  [st EXCEPT !.heap = r.heap, !.screens = r.screens, !.history = r.history]

\* st after restoreVersion(index) was called from a handler.
WithRestore(st, index) ==
    LET r == RestoreVersionResult(st.heap, st.screens, st.history, index)
    IN  [st EXCEPT !.heap = r.heap, !.screens = r.screens, !.history = r.history]

\* case 'text-delta' that puts the delta in front.
OnTextDelta_Prepend(st, chunk) ==
    [st EXCEPT !.content = chunk.delta \o @]

\* case 'text-delta'
OnTextDelta(st, chunk) ==
    [st EXCEPT !.content = @ \o chunk.delta]

\* case 'tool-input-start'
OnToolInputStart(st, chunk) ==
    LET g == GetOrCreateInvocation(st.toolInvocations, chunk.toolCallId, chunk.toolName)
    IN  [st EXCEPT !.toolInvocations = g.invs,
                   !.isDesigning = IF chunk.toolName = "upsertScreen" THEN TRUE ELSE @]

\* case 'data-editing-start' without its await nextTick().
OnDataEditingStart_NoYield(st, chunk, t) ==
    LET s1 == [st EXCEPT
                 !.toolCallIdToScreenId = MapSet(@, chunk.data.toolCallId, chunk.data.screenId),
                 !.editingScreenId = chunk.data.screenId]
        s2 == WithUpsert(s1, [id |-> chunk.data.screenId, name |-> "Designing..."], TRUE, t)
    IN  [s2 EXCEPT !.effect = "placeholder"]

\* case 'data-editing-start' that creates the placeholder only when the screen
\* set has no screen with that id.
OnDataEditingStart_KeepExisting(st, chunk, t) ==
    LET s1 == [st EXCEPT
                 !.toolCallIdToScreenId = MapSet(@, chunk.data.toolCallId, chunk.data.screenId),
                 !.editingScreenId = chunk.data.screenId]
        s2 == IF FindIndex(st.heap[st.screens], chunk.data.screenId) > 0 THEN s1
              ELSE WithUpsert(s1, [id |-> chunk.data.screenId, name |-> "Designing..."],
                              TRUE, t)
    IN  [s2 EXCEPT !.awaited = TRUE, !.effect = "placeholder"]

\* case 'data-editing-start' (screenId and toolCallId are strings)
OnDataEditingStart(st, chunk, t) ==
    LET s1 == [st EXCEPT
                 !.toolCallIdToScreenId = MapSet(@, chunk.data.toolCallId, chunk.data.screenId),
                 !.editingScreenId = chunk.data.screenId]
        s2 == WithUpsert(s1, [id |-> chunk.data.screenId, name |-> "Designing..."], TRUE, t)
    IN  [s2 EXCEPT !.awaited = TRUE, !.effect = "placeholder"]

\* typeof o[f] === 'string': of the properties of the model's objects, id,
\* name, html and css hold strings and index holds a number.
IsString(o, f) == f \in DOMAIN o /\ f \in {"id", "name", "html", "css"}

\* case 'tool-input-available' whose upsert records history.
OnToolInputAvailable_WithHistory(st, chunk, t) ==
    LET g  == GetOrCreateInvocation(st.toolInvocations, chunk.toolCallId, chunk.toolName)
        inv == Spread(g.invs[g.at], [args |-> chunk.input, state |-> "call"])
        s1 == [st EXCEPT !.toolInvocations = [g.invs EXCEPT ![g.at] = inv]]
    IN  IF inv.toolName = "upsertScreen" /\ IsString(chunk.input, "id")
        THEN LET s2 == [s1 EXCEPT
                          !.toolCallIdToScreenId = MapSet(@, chunk.toolCallId, chunk.input.id),
                          !.editingScreenId = chunk.input.id]
                 s3 == WithUpsert(s2,
                          [id |-> chunk.input.id,
                           name |-> IF IsString(chunk.input, "name")
                                    THEN chunk.input.name ELSE "Untitled Screen"],
                          FALSE, t)
             IN  [s3 EXCEPT !.awaited = TRUE, !.effect = "placeholder"]
        ELSE s1

\* case 'tool-input-available'
OnToolInputAvailable(st, chunk, t) ==
    LET g  == GetOrCreateInvocation(st.toolInvocations, chunk.toolCallId, chunk.toolName)
        inv == Spread(g.invs[g.at], [args |-> chunk.input, state |-> "call"])
        s1 == [st EXCEPT !.toolInvocations = [g.invs EXCEPT ![g.at] = inv]]
    IN  IF inv.toolName = "upsertScreen" /\ IsString(chunk.input, "id")
        THEN LET s2 == [s1 EXCEPT
                          !.toolCallIdToScreenId = MapSet(@, chunk.toolCallId, chunk.input.id),
                          !.editingScreenId = chunk.input.id]
                 s3 == WithUpsert(s2,
                          [id |-> chunk.input.id,
                           name |-> IF IsString(chunk.input, "name")
                                    THEN chunk.input.name ELSE "Untitled Screen"],
                          TRUE, t)
             IN  [s3 EXCEPT !.awaited = TRUE, !.effect = "placeholder"]
        ELSE s1

\* case 'tool-output-available' whose upsert is made like a placeholder's,
\* without a history entry and leaving the flags.
OnToolOutputAvailable_AsPlaceholder(st, chunk, t) ==
    LET g  == GetOrCreateInvocation(st.toolInvocations, chunk.toolCallId, Undefined)
        inv == Spread(g.invs[g.at], [state |-> "result", result |-> chunk.output])
        s1 == [st EXCEPT !.toolInvocations = [g.invs EXCEPT ![g.at] = inv]]
    IN  IF inv.toolName = "upsertScreen"
        THEN [WithUpsert(s1, [id |-> chunk.output.id, name |-> chunk.output.name],
                         TRUE, t) EXCEPT
                !.toolCallIdToScreenId = MapDelete(@, chunk.toolCallId),
                !.effect = "upsertScreen"]
        ELSE IF inv.toolName = "restoreVersion"
        THEN [WithRestore(s1, chunk.output.index) EXCEPT !.effect = "restoreVersion"]
        ELSE s1

\* case 'tool-output-available' (output is an object)
OnToolOutputAvailable(st, chunk, t) ==
    LET g  == GetOrCreateInvocation(st.toolInvocations, chunk.toolCallId, Undefined)
        inv == Spread(g.invs[g.at], [state |-> "result", result |-> chunk.output])
        s1 == [st EXCEPT !.toolInvocations = [g.invs EXCEPT ![g.at] = inv]]
    IN  IF inv.toolName = "upsertScreen"
        THEN [WithUpsert(s1, chunk.output, FALSE, t) EXCEPT
                !.toolCallIdToScreenId = MapDelete(@, chunk.toolCallId),
                !.editingScreenId = Null,
                !.isDesigning = FALSE,
                !.effect = "upsertScreen"]
        ELSE IF inv.toolName = "restoreVersion"
        THEN [WithRestore(s1, chunk.output.index) EXCEPT !.effect = "restoreVersion"]
        ELSE s1

\* case 'tool-output-error' that marks every invocation of the message.
OnToolOutputError_FailsAll(st, chunk) ==
    LET g  == GetOrCreateInvocation(st.toolInvocations, chunk.toolCallId, Undefined)
        s1 == [st EXCEPT !.toolInvocations =
                 [i \in 1..Len(g.invs) |->
                     Spread(g.invs[i], [state |-> "error",
                                        errorText |-> chunk.errorText])]]
    IN  IF s1.toolInvocations[g.at].toolName = "upsertScreen"
        THEN [s1 EXCEPT !.toolCallIdToScreenId = MapDelete(@, chunk.toolCallId),
                        !.editingScreenId = Null,
                        !.isDesigning = FALSE]
        ELSE s1

\* case 'tool-output-error' that clears the editing pointer and the designing
\* flag only when the pointer is on the screen of this call.
OnToolOutputError_OwnPointerOnly(st, chunk) ==
    LET g  == GetOrCreateInvocation(st.toolInvocations, chunk.toolCallId, Undefined)
        inv == Spread(g.invs[g.at], [state |-> "error", errorText |-> chunk.errorText])
        s1 == [st EXCEPT !.toolInvocations = [g.invs EXCEPT ![g.at] = inv]]
        own == /\ chunk.toolCallId \in DOMAIN st.toolCallIdToScreenId
               /\ st.toolCallIdToScreenId[chunk.toolCallId] = st.editingScreenId
    IN  IF inv.toolName = "upsertScreen"
        THEN [s1 EXCEPT !.toolCallIdToScreenId = MapDelete(@, chunk.toolCallId),
                        !.editingScreenId = IF own THEN Null ELSE @,
                        !.isDesigning = IF own THEN FALSE ELSE @]
        ELSE s1

\* case 'tool-output-error' that takes the screen of the call out of the
\* screen set again.
OnToolOutputError_RemovesPlaceholder(st, chunk) ==
    LET g  == GetOrCreateInvocation(st.toolInvocations, chunk.toolCallId, Undefined)
        inv == Spread(g.invs[g.at], [state |-> "error", errorText |-> chunk.errorText])
        s1 == [st EXCEPT !.toolInvocations = [g.invs EXCEPT ![g.at] = inv]]
        own(x) == /\ chunk.toolCallId \in DOMAIN st.toolCallIdToScreenId
                  /\ x.id = st.toolCallIdToScreenId[chunk.toolCallId]
    IN  IF inv.toolName = "upsertScreen"
        THEN [s1 EXCEPT !.toolCallIdToScreenId = MapDelete(@, chunk.toolCallId),
                        !.heap = [@ EXCEPT ![st.screens] =
                                    SelectSeq(@, LAMBDA x : ~own(x))],
                        !.editingScreenId = Null,
                        !.isDesigning = FALSE]
        ELSE s1

\* case 'tool-output-error'
OnToolOutputError(st, chunk) ==
    LET g  == GetOrCreateInvocation(st.toolInvocations, chunk.toolCallId, Undefined)
        inv == Spread(g.invs[g.at], [state |-> "error", errorText |-> chunk.errorText])
        s1 == [st EXCEPT !.toolInvocations = [g.invs EXCEPT ![g.at] = inv]]
    IN  IF inv.toolName = "upsertScreen"
        THEN [s1 EXCEPT !.toolCallIdToScreenId = MapDelete(@, chunk.toolCallId),
                        !.editingScreenId = Null,
                        !.isDesigning = FALSE]
        ELSE s1

\* handleChunk with a default case that ends the designing phase.
HandleChunk_DefaultResets(st, chunk, t) ==
    CASE chunk.type = "text-delta"            -> OnTextDelta(st, chunk)
      [] chunk.type = "tool-input-start"      -> OnToolInputStart(st, chunk)
      [] chunk.type = "data-editing-start"    -> OnDataEditingStart(st, chunk, t)
      [] chunk.type = "tool-input-available"  -> OnToolInputAvailable(st, chunk, t)
      [] chunk.type = "tool-output-available" -> OnToolOutputAvailable(st, chunk, t)
      [] chunk.type = "tool-output-error"     -> OnToolOutputError(st, chunk)
      [] OTHER                                -> [st EXCEPT !.editingScreenId = Null,
                                                            !.isDesigning = FALSE]

\* handleChunk(chunk) with Date.now() = t: the switch on chunk.type.
HandleChunk(st, chunk, t) ==
    CASE chunk.type = "text-delta"            -> OnTextDelta(st, chunk)
      [] chunk.type = "tool-input-start"      -> OnToolInputStart(st, chunk)
      [] chunk.type = "data-editing-start"    -> OnDataEditingStart(st, chunk, t)
      [] chunk.type = "tool-input-available"  -> OnToolInputAvailable(st, chunk, t)
      [] chunk.type = "tool-output-available" -> OnToolOutputAvailable(st, chunk, t)
      [] chunk.type = "tool-output-error"     -> OnToolOutputError(st, chunk)
      [] OTHER                                -> st

-----------------------------------------------------------------------------
(* Inputs of the Document Store operations *)

ScreenIds == {"welcome", "s1"}
Names == {"Login"}
Htmls == {"<div/>"}
Csss == {""}
Timestamps == {1000}

\* Partial<Screen> & { id: string }, in the shapes the callers pass: the
\* placeholder { id, name }, a tool output { id, name, html, css }, and an
\* edit of one field { id, html }.
PartialScreens ==
    {[id |-> i, name |-> n] : i \in ScreenIds, n \in Names}
    \cup {[id |-> i, html |-> h] : i \in ScreenIds, h \in Htmls}
    \cup {[id |-> i, name |-> n, html |-> h, css |-> c] :
            i \in ScreenIds, n \in Names, h \in Htmls, c \in Csss}

\* restoreVersion's argument: every index of the history, and one below and
\* one above.
Indexes == (-1)..MaxHistory

-----------------------------------------------------------------------------
(* Initial state *)

StoreInit ==
    /\ heap = [r \in {1} |-> InitialScreens]
    /\ screens = 1
    /\ history = << >>
    /\ editingScreenId = Null
    /\ isDesigning = FALSE

TurnIdle ==
    /\ pc = "idle"
    /\ isLoading = FALSE
    /\ messages = << >>
    /\ content = << >>
    /\ toolInvocations = << >>
    /\ toolCallIdToScreenId = << >>

SseIdle ==
    /\ body = << >>
    /\ wire = << >>
    /\ pending = << >>
    /\ buffer = << >>
    /\ done = FALSE
    /\ streamDone = FALSE
    /\ splits = {}

ServerInit ==
    /\ upsertInputBuffers = << >>
    /\ sentEditingStart = {}
    /\ written = << >>
    /\ nDeltas = 0
    /\ inputDeltas = << >>
    /\ requestScreens = [read |-> FALSE]
    /\ toolResults = << >>

ObsInit ==
    /\ lastOp = [op |-> "none"]
    /\ delivered = << >>
    /\ errors = << >>
    /\ priorScreens = << >>
    /\ rur = [stage |-> 0, index |-> 0]
    /\ nDispatched = 0
    /\ calls = << >>

-----------------------------------------------------------------------------
(* The Document Store called directly *)

\* The observer's restore / upsert / restore automaton:
\*   stage 1: restoreVersion(index) has just restored a snapshot
\*   stage 2: ... and one upsertScreen followed it
\*   stage 3: ... and restoreVersion(index) followed that
\*   stage 4: restoreVersion(index) directly followed restoreVersion(index)
RurAfterUpsert ==
    IF rur.stage \in {1, 3, 4} THEN [stage |-> 2, index |-> rur.index]
    ELSE [stage |-> 0, index |-> 0]

RurAfterRestore(index) ==
    IF ~HasVersion(history, index) THEN [stage |-> 0, index |-> 0]
    ELSE IF rur.stage = 2 /\ rur.index = index THEN [stage |-> 3, index |-> index]
    ELSE IF rur.stage \in {1, 3, 4} /\ rur.index = index THEN [stage |-> 4, index |-> index]
    ELSE [stage |-> 1, index |-> index]

\* The store's part of a call of upsertScreen.
DoUpsertScreen(screen, skipHistory, t) ==
    LET r == UpsertScreenResult(heap, screens, history, screen, skipHistory, t)
    IN  /\ heap' = r.heap
        /\ history' = r.history
        /\ screens' = r.screens
        /\ priorScreens' = IF Len(r.history) > Len(history)
                           THEN Append(priorScreens, heap[screens])
                           ELSE priorScreens
        /\ rur' = RurAfterUpsert

\* The store's part of a call of restoreVersion.
DoRestoreVersion(index) ==
    LET r == RestoreVersionResult(heap, screens, history, index)
    IN  /\ heap' = r.heap
        /\ screens' = r.screens
        /\ history' = r.history
        /\ priorScreens' = priorScreens
        /\ rur' = RurAfterRestore(index)

CallUpsertScreen ==
    \E screen \in PartialScreens, skipHistory \in BOOLEAN, t \in Timestamps :
        /\ ~skipHistory => Len(history) < MaxHistory
        /\ DoUpsertScreen(screen, skipHistory, t)
        /\ lastOp' = [op |-> "upsertScreen", skipHistory |-> skipHistory,
                      existed |-> FindIndex(heap[screens], screen.id) > 0,
                      screen |-> screen]
        /\ UNCHANGED <<editingScreenId, isDesigning, turnVars, sseVars,
                       serverVars, delivered, errors, nDispatched, calls>>

CallRestoreVersion ==
    \E index \in Indexes :
        /\ DoRestoreVersion(index)
        /\ lastOp' = [op |-> "restoreVersion", index |-> index,
                      valid |-> HasVersion(history, index)]
        /\ UNCHANGED <<editingScreenId, isDesigning, turnVars, sseVars,
                       serverVars, delivered, errors, nDispatched, calls>>

\* restoreVersion(undefined), as when an output carries no index.
CallRestoreVersionUndefined ==
    LET r == RestoreVersionAt(heap, screens, history, [type |-> Undefined])
    IN  /\ heap' = r.heap
        /\ screens' = r.screens
        /\ history' = r.history
        /\ priorScreens' = priorScreens
        /\ rur' = [stage |-> 0, index |-> 0]
        /\ lastOp' = [op |-> "restoreVersion",
                      valid |-> HasVersionAt(history, [type |-> Undefined])]
        /\ UNCHANGED <<editingScreenId, isDesigning, turnVars, sseVars,
                       serverVars, delivered, errors, nDispatched, calls>>

StoreSpecInit == StoreInit /\ TurnIdle /\ SseIdle /\ ServerInit /\ ObsInit

StoreNext == CallUpsertScreen \/ CallRestoreVersion \/ CallRestoreVersionUndefined

SpecStore == StoreSpecInit /\ [][StoreNext]_vars

-----------------------------------------------------------------------------
(* One turn of the chat, driven by the chunks the decode loop hands over *)

CallIds == {"call1", "call2"}
ToolNames == {"upsertScreen", "restoreVersion"}
Deltas == {<<"H", "i">>, <<" ">>}
ErrorTexts == {"boom"}

\* The input the agent runtime validated for a tool (server/utils/ai-tools.ts).
UpsertObjects ==
    {[id |-> i, name |-> n, html |-> h, css |-> c] :
        i \in ScreenIds, n \in Names, h \in Htmls, c \in Csss}
IndexObjects == {[index |-> i] : i \in Indexes}
\* An input as the client may read it from a frame: the handler takes it as
\* Record<string, unknown> and tests typeof input.name itself.
NamelessInputs == {[id |-> i, html |-> h] : i \in ScreenIds, h \in Htmls}
InputsOf(toolName) ==
    IF toolName = "upsertScreen" THEN UpsertObjects \cup NamelessInputs
    ELSE {[index |-> 0]}

\* What the tool's execute returns (server/utils/ai-tools.ts): upsertScreen
\* returns { id, name, html, css }, restoreVersion returns { index }.
OutputsOf(toolName) ==
    IF toolName = "restoreVersion" THEN IndexObjects ELSE UpsertObjects

\* String.prototype.trimEnd on a sequence of characters.
IsWhitespace(c) == c \in {" ", "\n", "\t"}

RECURSIVE TrimEnd(_)
TrimEnd(str) ==
    IF str # << >> /\ IsWhitespace(str[Len(str)])
    THEN TrimEnd(SubSeq(str, 1, Len(str) - 1))
    ELSE str

\* String.prototype.trimStart
RECURSIVE TrimStart(_)
TrimStart(str) ==
    IF str # << >> /\ IsWhitespace(Head(str)) THEN TrimStart(Tail(str)) ELSE str

\* String.prototype.trim
Trim(str) == TrimEnd(TrimStart(str))

\* input.value when handleSubmit is called.
Inputs == {<< >>, <<" ">>, <<"g", "o">>}

\* The guard of handleSubmit that does not look at isLoading.
Accepts_IgnoresLoading(text, loading) == Trim(text) # << >>

\* if (!input.value.trim() || isLoading.value) return: whether the call goes on.
Accepts(text, loading) == ~(Trim(text) = << >> \/ loading)

\* The messages handleSubmit pushes.
UserMessage(text) == [role |-> "user", content |-> text]
AssistantMessage == [role |-> "assistant"]

\* The state of the invocation of toolCallId, "uncreated" when there is none.
StateOf(invs, toolCallId) ==
    LET e == FindInvocation(invs, toolCallId)
    IN  IF e > 0 THEN invs[e].state ELSE "uncreated"

\* The variables after a handler returned r.
Commit(r) ==
    /\ content' = r.content
    /\ toolInvocations' = r.toolInvocations
    /\ toolCallIdToScreenId' = r.toolCallIdToScreenId
    /\ heap' = r.heap
    /\ screens' = r.screens
    /\ history' = r.history
    /\ editingScreenId' = r.editingScreenId
    /\ isDesigning' = r.isDesigning
    /\ priorScreens' = IF Len(r.history) > Len(history)
                       THEN Append(priorScreens, heap[screens])
                       ELSE priorScreens
    /\ rur' = IF r.effect = "none" THEN rur ELSE [stage |-> 0, index |-> 0]

\* The history as a value: the timestamp and the screens of every entry.
HistoryValue ==
    [i \in 1..Len(history) |->
        [timestamp |-> history[i].timestamp, screens |-> heap[history[i].screens]]]

\* The event types that carry a toolCallId of their own.
ToolEventTypes ==
    {"tool-input-start", "tool-input-available", "tool-output-available",
     "tool-output-error"}

\* The observer's record of the calls after an event of `type` that refers to
\* toolCallId ("none" when it refers to no call).  For each call referred to
\* so far: whether a tool-* event referred to it, whether a
\* data-editing-start referred to it, the screen set and the history as they
\* were before its first event, whether only its own events (and events
\* of no call) have been processed since, the how-manieth call it was to be
\* referred to by any event (mentioned), and the how-manieth to be referred
\* to by a tool-* event (trackedAt, 0 when none has).
CallsAfter(type, toolCallId) ==
    IF toolCallId = "none" THEN calls
    ELSE [c \in (DOMAIN calls) \cup {toolCallId} |->
            IF c # toolCallId THEN [calls[c] EXCEPT !.alone = FALSE]
            ELSE LET old == IF c \in DOMAIN calls THEN calls[c]
                            ELSE [tracked |-> FALSE, signalled |-> FALSE,
                                  screens0 |-> heap[screens],
                                  history0 |-> HistoryValue, alone |-> TRUE,
                                  mentioned |-> Cardinality(DOMAIN calls) + 1,
                                  trackedAt |-> 0]
                 IN  [old EXCEPT
                        !.tracked = @ \/ type \in ToolEventTypes,
                        !.signalled = @ \/ type = "data-editing-start",
                        !.trackedAt =
                            IF @ = 0 /\ type \in ToolEventTypes
                            THEN Cardinality({d \in DOMAIN calls :
                                                calls[d].tracked}) + 1
                            ELSE @]]

\* await onChunk(chunk): handleChunk runs to its end or to its await nextTick().
Dispatch(chunk, toolCallId, t) ==
    LET r == HandleChunk(HandlerState, chunk, t)
    IN  /\ pc = "frames"
        /\ nDispatched < MaxEvents
        /\ Len(r.history) <= MaxHistory
        /\ Len(r.content) <= MaxContent
        /\ Commit(r)
        /\ pc' = IF r.awaited THEN "tick" ELSE "frames"
        /\ nDispatched' = nDispatched + 1
        /\ calls' = CallsAfter(chunk.type, toolCallId)
        /\ lastOp' = [op |-> "event", type |-> chunk.type, toolCallId |-> toolCallId,
                      prevState |-> StateOf(toolInvocations, toolCallId),
                      effect |-> r.effect, chunk |-> chunk,
                      prevEditing |-> editingScreenId,
                      prevScreens |-> heap[screens], prevHistory |-> Len(history)]
        /\ UNCHANGED <<messages, isLoading, sseVars, serverVars, delivered, errors>>

\* handleSubmit up to the decode loop: the request was accepted and answered
\* with a readable body.
BeginTurn ==
    /\ pc = "idle"
    /\ \E text \in Inputs :
          /\ Accepts(text, isLoading)
          /\ messages' = messages \o <<UserMessage(text), AssistantMessage>>
    /\ pc' = "frames"
    /\ isLoading' = TRUE
    /\ content' = << >>
    /\ toolInvocations' = << >>
    /\ toolCallIdToScreenId' = << >>
    /\ lastOp' = [op |-> "submit"]
    /\ UNCHANGED <<storeVars, sseVars, serverVars, delivered, errors,
                   priorScreens, rur, nDispatched, calls>>

RecvTextDelta ==
    \E d \in Deltas :
        Dispatch([type |-> "text-delta", delta |-> d], "none", 0)

RecvToolInputStart ==
    \E c \in CallIds, n \in ToolNames :
        Dispatch([type |-> "tool-input-start", toolCallId |-> c, toolName |-> n], c, 0)

RecvDataEditingStart ==
    \E c \in CallIds, i \in ScreenIds, t \in Timestamps :
        Dispatch([type |-> "data-editing-start",
                  data |-> [screenId |-> i, toolCallId |-> c]], c, t)

RecvToolInputAvailable ==
    \E c \in CallIds, n \in ToolNames, t \in Timestamps :
        \E input \in InputsOf(n) :
            Dispatch([type |-> "tool-input-available", toolCallId |-> c,
                      toolName |-> n, input |-> input], c, t)

RecvToolOutputAvailable ==
    \E c \in CallIds, t \in Timestamps :
        LET e == FindInvocation(toolInvocations, c)
        IN  \E output \in OutputsOf(IF e > 0 THEN toolInvocations[e].toolName
                                    ELSE Undefined) :
                Dispatch([type |-> "tool-output-available", toolCallId |-> c,
                          output |-> output], c, t)

RecvToolOutputError ==
    \E c \in CallIds, x \in ErrorTexts :
        Dispatch([type |-> "tool-output-error", toolCallId |-> c,
                  errorText |-> x], c, 0)

RecvError ==
    \E x \in ErrorTexts :
        Dispatch([type |-> "error", errorText |-> x], "none", 0)

RecvOther ==
    Dispatch([type |-> "foo-bar"], "none", 0)

\* The scheduling tick a handler awaited has passed.
Tick ==
    /\ pc = "tick"
    /\ pc' = "frames"
    /\ UNCHANGED <<messages, storeVars, isLoading, content, toolInvocations,
                   toolCallIdToScreenId, sseVars, serverVars, obsVars>>

\* The finally block of handleSubmit without the two calls on the project state.
Finally_LoadingOnly ==
    /\ isLoading' = FALSE
    /\ UNCHANGED <<editingScreenId, isDesigning>>

\* The finally block of handleSubmit.
Finally ==
    /\ isLoading' = FALSE
    /\ editingScreenId' = Null
    /\ isDesigning' = FALSE

\* handleSubmit after the decode loop: trimEnd, then the finally block.
AfterStream ==
    /\ content' = TrimEnd(content)
    /\ Finally
    /\ pc' = "finished"

EndTurn ==
    /\ pc = "frames"
    /\ AfterStream
    /\ lastOp' = [op |-> "end"]
    /\ UNCHANGED <<messages, heap, screens, history, toolInvocations, toolCallIdToScreenId,
                   sseVars, serverVars, delivered, errors, priorScreens, rur,
                   nDispatched, calls>>

TurnNext ==
    \/ BeginTurn
    \/ RecvTextDelta
    \/ RecvToolInputStart
    \/ RecvDataEditingStart
    \/ RecvToolInputAvailable
    \/ RecvToolOutputAvailable
    \/ RecvToolOutputError
    \/ RecvError
    \/ RecvOther
    \/ Tick
    \/ EndTurn

SpecTurn == StoreSpecInit /\ [][TurnNext]_vars

-----------------------------------------------------------------------------
(* SSE decode loop: composables/chat/parseSSEStream.ts *)

\* The body is a sequence of bytes.  An ASCII byte is written as its
\* character; "C3" "A9" are the two bytes of U+00E9.
LeadBytes == {"C3"}
ContinuationBytes == {"A9"}
Replacement == "FFFD"
TwoByteChar == "U+00E9"

\* The UTF-8 decoder behind TextDecoder: the text of `bytes` after the
\* unfinished character `pend`, and the bytes of a character still unfinished.
\* A lead byte and its continuation byte give one character; a lead byte
\* followed by anything else, and a continuation byte on its own, give U+FFFD.
DecodeBytes(pend, bytes) ==
    LET all == pend \o bytes
        n == Len(all)
        Skip == "skip"
        at(i) == IF all[i] \in LeadBytes
                 THEN IF i = n \/ all[i + 1] \in ContinuationBytes THEN Skip
                      ELSE Replacement
                 ELSE IF all[i] \in ContinuationBytes
                 THEN IF i > 1 /\ all[i - 1] \in LeadBytes THEN TwoByteChar
                      ELSE Replacement
                 ELSE all[i]
    IN  [text |-> SelectSeq([i \in 1..n |-> at(i)], LAMBDA c : c # Skip),
         pending |-> IF n > 0 /\ all[n] \in LeadBytes THEN <<all[n]>> ELSE << >>]

\* decoder.decode(value) without { stream: true }: an unfinished character at
\* the end of value is flushed as U+FFFD and nothing is carried over.
Decode_NoStream(pend, value) ==
    LET r == DecodeBytes(<< >>, value)
    IN  [text |-> r.text \o (IF r.pending # << >> THEN <<Replacement>> ELSE << >>),
         pending |-> << >>]

\* decoder.decode(value, { stream: true })
Decode(pend, value) == DecodeBytes(pend, value)

\* .replaceAll('\r', '')
\* The text as it is, with its \r.
StripCR_Keep(text) == text

StripCR(text) == SelectSeq(text, LAMBDA c : c # "\r")

\* buffer.indexOf('\n\n'), 1-based; 0 stands for -1.
IndexOfSeparator(buf) ==
    IF \E i \in 1..(Len(buf) - 1) : buf[i] = "\n" /\ buf[i + 1] = "\n"
    THEN CHOOSE i \in 1..(Len(buf) - 1) :
            /\ buf[i] = "\n" /\ buf[i + 1] = "\n"
            /\ \A j \in 1..(i - 1) : ~(buf[j] = "\n" /\ buf[j + 1] = "\n")
    ELSE 0

\* rawEvent.split('\n')
RECURSIVE Split(_)
Split(s) ==
    IF \E i \in 1..Len(s) : s[i] = "\n"
    THEN LET i == CHOOSE k \in 1..Len(s) :
                     s[k] = "\n" /\ \A j \in 1..(k - 1) : s[j] # "\n"
         IN  <<SubSeq(s, 1, i - 1)>> \o Split(SubSeq(s, i + 1, Len(s)))
    ELSE <<s>>

DataPrefix == <<"d", "a", "t", "a", ":">>

\* l.startsWith('data:')
StartsWithData(l) == Len(l) >= Len(DataPrefix) /\ SubSeq(l, 1, Len(DataPrefix)) = DataPrefix

\* lines.join('\n')
RECURSIVE Join(_)
Join(lines) ==
    IF lines = << >> THEN << >>
    ELSE IF Len(lines) = 1 THEN lines[1]
    ELSE lines[1] \o <<"\n">> \o Join(Tail(lines))

DoneMark == <<"[", "D", "O", "N", "E", "]">>

\* The objects of the wires below (server/utils/ai-tools.ts).
ScenarioScreen == [id |-> "s1", name |-> "Login", html |-> "<div/>", css |-> ""]

\* JSON texts.  `null` is the symbol "null".  An object is written "{" body
\* "}", with whitespace allowed around the body.  A body in double quotes is
\* a text-delta whose delta is the quoted characters; any other body is one
\* symbol that stands for the members of one event:
EventSymbols ==
    {"start1", "edit1", "in1", "out1", "err1", "in2", "out2", "fail", "bare1", "bare2"}

JsonEvent(symbol) ==
    CASE symbol = "start1" -> [type |-> "tool-input-start", toolCallId |-> "call1",
                               toolName |-> "upsertScreen"]
      [] symbol = "edit1"  -> [type |-> "data-editing-start",
                               data |-> [screenId |-> "s1", toolCallId |-> "call1"]]
      [] symbol = "in1"    -> [type |-> "tool-input-available", toolCallId |-> "call1",
                               toolName |-> "upsertScreen", input |-> ScenarioScreen]
      [] symbol = "out1"   -> [type |-> "tool-output-available", toolCallId |-> "call1",
                               output |-> ScenarioScreen]
      [] symbol = "err1"   -> [type |-> "tool-output-error", toolCallId |-> "call1",
                               errorText |-> "boom"]
      [] symbol = "in2"    -> [type |-> "tool-input-available", toolCallId |-> "call2",
                               toolName |-> "restoreVersion", input |-> [index |-> 0]]
      [] symbol = "out2"   -> [type |-> "tool-output-available", toolCallId |-> "call2",
                               output |-> [index |-> 0]]
      [] symbol = "fail"   -> [type |-> "error", errorText |-> "boom"]
      [] symbol = "bare1"  -> [type |-> "tool-output-available", toolCallId |-> "call1"]
      [] symbol = "bare2"  -> [type |-> "tool-output-available", toolCallId |-> "call2"]

\* JSON.parse(data): a SyntaxError, null, or an object.
JsonParse(data) ==
    LET t == TrimEnd(TrimStart(data))
        inner == TrimEnd(TrimStart(SubSeq(t, 2, Len(t) - 1)))
        quoted == SubSeq(inner, 2, Len(inner) - 1)
    IN  IF t = <<"null">> THEN [kind |-> "null"]
        ELSE IF Len(t) < 2 \/ t[1] # "{" \/ t[Len(t)] # "}" THEN [kind |-> "SyntaxError"]
        ELSE IF Len(inner) = 1 /\ inner[1] \in EventSymbols
        THEN [kind |-> "object", value |-> JsonEvent(inner[1])]
        ELSE IF /\ Len(inner) >= 2
                /\ inner[1] = "\"" /\ inner[Len(inner)] = "\""
                /\ \A i \in 1..Len(quoted) :
                      /\ quoted[i] \notin {"\"", "\n", "\t", "{", "}"}
                      /\ quoted[i] \notin EventSymbols
        THEN [kind |-> "object", value |-> [type |-> "text-delta", delta |-> quoted]]
        ELSE [kind |-> "SyntaxError"]

\* One pass of the inner loop over buf, up to the point where the chunk is
\* parsed: the loop breaks (no separator), continues (no data line), sees the
\* termination mark, or has a payload to parse.
FrameStep(buf) ==
    LET separatorIndex == IndexOfSeparator(buf)
        rawEvent  == SubSeq(buf, 1, separatorIndex - 1)
        rest      == SubSeq(buf, separatorIndex + 2, Len(buf))
        dataLines == SelectSeq(Split(rawEvent), StartsWithData)
        data      == Join([k \in 1..Len(dataLines) |->
                             TrimStart(SubSeq(dataLines[k], Len(DataPrefix) + 1,
                                              Len(dataLines[k])))])
    IN  IF separatorIndex = 0 THEN [kind |-> "break"]
        ELSE IF dataLines = << >> THEN [kind |-> "continue", rest |-> rest]
        ELSE IF data = DoneMark THEN [kind |-> "done", rest |-> rest, data |-> data]
        ELSE [kind |-> "chunk", rest |-> rest, data |-> data, parsed |-> JsonParse(data)]

\* The toolCallId a chunk refers to, "none" when it has none.
ToolCallIdOf(chunk) ==
    IF "toolCallId" \in DOMAIN chunk THEN chunk.toolCallId
    ELSE IF chunk.type = "data-editing-start" THEN chunk.data.toolCallId
    ELSE "none"

\* The response bodies of the turns of the model (server/api/chat.post.ts).
Obj(inner) == <<"{">> \o inner \o <<"}">>
Str(chars) == <<"\"">> \o chars \o <<"\"">>
Frame(payload) == DataPrefix \o <<" ">> \o payload \o <<"\n", "\n">>

\* text-delta("Hi"), tool-input-available(call1), tool-output-available(call1), [DONE]
ScenarioBody ==
    Frame(Obj(Str(<<"H", "i">>))) \o Frame(Obj(<<"in1">>))
        \o Frame(Obj(<<"out1">>)) \o Frame(DoneMark)

\* A frame with CRLF line ends, no space after the colon and a two-byte
\* character; a comment frame; a payload on two data lines; a truncated JSON
\* text; null; a frame after a third newline; [DONE]; a frame after [DONE].
MixedBody ==
    DataPrefix \o Obj(Str(<<"C3", "A9">>)) \o <<"\r", "\n", "\r", "\n">>
        \o <<":", "k", "\n", "\n">>
        \o DataPrefix \o <<" ", "{", "\n">> \o DataPrefix \o <<" ", "start1", "}", "\n", "\n">>
        \o Frame(<<"{", "in1">>)
        \o Frame(<<"null">>)
        \o <<"\n">> \o Frame(Obj(<<"err1">>))
        \o Frame(DoneMark)
        \o Frame(Obj(<<"out1">>))

\* A body that ends without [DONE] and inside a frame.
TruncatedBody ==
    Frame(Obj(<<"edit1">>)) \o Frame(Obj(<<"out1">>))
        \o Frame(Obj(<<"in2">>)) \o Frame(Obj(<<"out2">>))
        \o Frame(Obj(Str(<<"H", "i", " ">>)))
        \o DataPrefix \o <<" ">> \o Obj(<<"fail">>)

\* The body b as a server sends it that ends every line with \r\n.
Crlf(b) ==
    LET at(i) == i + Cardinality({j \in 1..(i - 1) : b[j] = "\n"})
        total == Len(b) + Cardinality({j \in 1..Len(b) : b[j] = "\n"})
    IN  [k \in 1..total |->
            IF \E i \in 1..Len(b) : b[i] = "\n" /\ at(i) = k THEN "\r"
            ELSE b[CHOOSE i \in 1..Len(b) :
                     \/ b[i] # "\n" /\ at(i) = k
                     \/ b[i] = "\n" /\ at(i) + 1 = k]]

LfBodies == {ScenarioBody, TruncatedBody}
\* Each of them with its \r\n form.
CrlfPairs == {[lf |-> b, crlf |-> Crlf(b)] : b \in LfBodies}
CrlfBodies == {p.crlf : p \in CrlfPairs}

Bodies == {ScenarioBody, MixedBody, TruncatedBody, << >>} \cup CrlfBodies

\* Where a read that left `rest` undelivered has cut the body: inside a
\* character, between the two newlines of a separator, inside a line, or
\* between the \r and the \n of a line end.
SplitKinds(buf, pend, rest) ==
    LET next == StripCR(rest)
    IN  (IF pend # << >> THEN {"character"} ELSE {})
        \cup (IF /\ next # << >> /\ buf # << >>
                 /\ buf[Len(buf)] = "\n" /\ Head(next) = "\n"
                 /\ (Len(buf) < 2 \/ buf[Len(buf) - 1] # "\n")
              THEN {"separator"} ELSE {})
        \cup (IF /\ next # << >> /\ buf # << >>
                 /\ buf[Len(buf)] # "\n" /\ Head(next) # "\n"
              THEN {"line"} ELSE {})
        \cup (IF /\ rest # << >> /\ Head(rest) = "\n"
                 /\ Len(body) > Len(rest)
                 /\ body[Len(body) - Len(rest)] = "\r"
              THEN {"crlf"} ELSE {})

\* handleSubmit up to the first read: the request was answered with a body.
Submit ==
    /\ pc = "idle"
    /\ \E text \in Inputs :
          /\ Accepts(text, isLoading)
          /\ messages' = messages \o <<UserMessage(text), AssistantMessage>>
    /\ \E b \in Bodies : body' = b /\ wire' = b
    /\ pc' = "read"
    /\ isLoading' = TRUE
    /\ content' = << >>
    /\ toolInvocations' = << >>
    /\ toolCallIdToScreenId' = << >>
    /\ pending' = << >>
    /\ buffer' = << >>
    /\ done' = FALSE
    /\ streamDone' = FALSE
    /\ splits' = {}
    /\ lastOp' = [op |-> "submit"]
    /\ UNCHANGED <<storeVars, serverVars, delivered, errors, priorScreens, rur,
                   nDispatched, calls>>

\* handleSubmit when fetch rejects, the response is not ok or has no body:
\* the catch block, then the finally block.
SubmitFailed ==
    /\ pc = "idle"
    /\ \E text \in Inputs :
          /\ Accepts(text, isLoading)
          /\ messages' = Append(messages, UserMessage(text))
    /\ pc' = "finished"
    /\ Finally
    /\ \E cause \in {"fetch rejected", "response not ok", "no body reader"} :
          lastOp' = [op |-> "failed", cause |-> cause]
    /\ UNCHANGED <<heap, screens, history, content, toolInvocations,
                   toolCallIdToScreenId, sseVars, serverVars, delivered, errors,
                   priorScreens, rur, nDispatched, calls>>

\* reader.read() resolves with some of the bytes; they are decoded and
\* appended to the buffer.
ReadChunk ==
    /\ pc = "read"
    /\ wire # << >>
    /\ \E n \in 1..Len(wire) :
          LET value == SubSeq(wire, 1, n)
              rest  == SubSeq(wire, n + 1, Len(wire))
              d     == Decode(pending, value)
              buf   == buffer \o StripCR(d.text)
          IN  /\ wire' = rest
              /\ pending' = d.pending
              /\ buffer' = buf
              /\ splits' = splits \cup SplitKinds(buf, d.pending, rest)
    /\ done' = FALSE
    /\ pc' = "frames"
    /\ lastOp' = [op |-> "read"]
    /\ UNCHANGED <<messages, storeVars, isLoading, content, toolInvocations,
                   toolCallIdToScreenId, body, streamDone, serverVars, delivered,
                   errors, priorScreens, rur, nDispatched, calls>>

\* reader.read() resolves with done, with a loop that takes what is left in
\* the buffer as a last frame before it ends.
ReadEnd_Flush ==
    LET f == FrameStep(buffer \o <<"\n", "\n">>)
    IN  /\ pc = "read"
        /\ wire = << >>
        /\ done' = TRUE
        /\ pc' = "finished"
        /\ Finally
        /\ lastOp' = [op |-> "end"]
        /\ IF f.kind = "chunk" /\ f.parsed.kind = "object"
           THEN \E t \in Timestamps :
                   LET r == HandleChunk(HandlerState, f.parsed.value, t)
                   IN  /\ content' = TrimEnd(r.content)
                       /\ toolInvocations' = r.toolInvocations
                       /\ toolCallIdToScreenId' = r.toolCallIdToScreenId
                       /\ heap' = r.heap
                       /\ screens' = r.screens
                       /\ history' = r.history
                       /\ buffer' = << >>
                       /\ delivered' = Append(delivered, f.data)
                       /\ nDispatched' = nDispatched + 1
           ELSE /\ content' = TrimEnd(content)
                /\ UNCHANGED <<heap, screens, history, toolInvocations,
                               toolCallIdToScreenId, buffer, delivered, nDispatched>>
        /\ UNCHANGED <<messages, body, wire, pending, streamDone, splits, serverVars,
                       errors, priorScreens, rur, calls>>

\* reader.read() resolves with done: the outer loop ends, then handleSubmit
\* trims the content and runs its finally block.
ReadEnd ==
    /\ pc = "read"
    /\ wire = << >>
    /\ done' = TRUE
    /\ AfterStream
    /\ lastOp' = [op |-> "end"]
    /\ UNCHANGED <<messages, heap, screens, history, toolInvocations, toolCallIdToScreenId,
                   body, wire, pending, buffer, streamDone, splits, serverVars,
                   delivered, errors, priorScreens, rur, nDispatched, calls>>

\* reader.read() rejects (the transport was aborted or failed): the error
\* leaves parseSSEStream, handleSubmit logs it in its catch block and runs its
\* finally block; the content is not trimmed.
ReadFails ==
    /\ pc = "read"
    /\ pc' = "finished"
    /\ Finally
    /\ lastOp' = [op |-> "aborted"]
    /\ UNCHANGED <<messages, heap, screens, history, content, toolInvocations,
                   toolCallIdToScreenId, sseVars, serverVars, delivered, errors,
                   priorScreens, rur, nDispatched, calls>>

\* separatorIndex === -1: break, and back to reader.read().
NoSeparator ==
    /\ pc = "frames"
    /\ FrameStep(buffer).kind = "break"
    /\ pc' = "read"
    /\ lastOp' = [op |-> "break"]
    /\ UNCHANGED <<messages, storeVars, isLoading, content, toolInvocations,
                   toolCallIdToScreenId, sseVars, serverVars, delivered, errors,
                   priorScreens, rur, nDispatched, calls>>

\* dataLines.length === 0: continue.
SkipFrame ==
    /\ pc = "frames"
    /\ FrameStep(buffer).kind = "continue"
    /\ buffer' = FrameStep(buffer).rest
    /\ lastOp' = [op |-> "continue"]
    /\ UNCHANGED <<storeVars, turnVars, body, wire, pending, done, streamDone,
                   splits, serverVars, delivered, errors, priorScreens, rur,
                   nDispatched, calls>>

\* data === '[DONE]' without the two breaks: streamDone is set and the frame
\* loop takes the next frame.
DoneFrame_NoBreak ==
    /\ pc = "frames"
    /\ FrameStep(buffer).kind = "done"
    /\ buffer' = FrameStep(buffer).rest
    /\ streamDone' = TRUE
    /\ lastOp' = [op |-> "end"]
    /\ UNCHANGED <<storeVars, turnVars, body, wire, pending, done, splits,
                   serverVars, delivered, errors, priorScreens, rur,
                   nDispatched, calls>>

\* data === '[DONE]': both loops end, then handleSubmit trims the content and
\* runs its finally block.
DoneFrame ==
    /\ pc = "frames"
    /\ FrameStep(buffer).kind = "done"
    /\ buffer' = FrameStep(buffer).rest
    /\ streamDone' = TRUE
    /\ AfterStream
    /\ lastOp' = [op |-> "end"]
    /\ UNCHANGED <<messages, heap, screens, history, toolInvocations, toolCallIdToScreenId,
                   body, wire, pending, done, splits, serverVars, delivered,
                   errors, priorScreens, rur, nDispatched, calls>>

\* The frame loop without its try/catch: the error leaves parseSSEStream and
\* handleSubmit ends the turn in its catch and finally blocks.
BadFrame_Aborts ==
    LET f == FrameStep(buffer)
    IN  /\ pc = "frames"
        /\ f.kind = "chunk"
        /\ f.parsed.kind # "object"
        /\ buffer' = f.rest
        /\ pc' = "finished"
        /\ Finally
        /\ lastOp' = [op |-> "onError"]
        /\ UNCHANGED <<messages, heap, screens, history, content, toolInvocations,
                       toolCallIdToScreenId, body, wire, pending, done,
                       streamDone, splits, serverVars, delivered, errors,
                       priorScreens, rur, nDispatched, calls>>

\* JSON.parse throws, or handleChunk throws on chunk.type of null: onError.
BadFrame ==
    LET f == FrameStep(buffer)
    IN  /\ pc = "frames"
        /\ f.kind = "chunk"
        /\ f.parsed.kind # "object"
        /\ buffer' = f.rest
        /\ delivered' = IF f.parsed.kind = "null" THEN Append(delivered, f.data)
                        ELSE delivered
        /\ errors' = Append(errors, f.data)
        /\ lastOp' = [op |-> "onError"]
        /\ UNCHANGED <<storeVars, turnVars, body, wire, pending, done, streamDone,
                       splits, serverVars, priorScreens, rur, nDispatched, calls>>

\* await onChunk(chunk): handleChunk runs to its end or to its await nextTick().
ChunkFrame ==
    \E f \in {FrameStep(buffer)} :
        /\ pc = "frames"
        /\ f.kind = "chunk"
        /\ f.parsed.kind = "object"
        /\ \E t \in Timestamps :
              \E r \in {HandleChunk(HandlerState, f.parsed.value, t)} :
                  /\ Commit(r)
                  /\ pc' = IF r.awaited THEN "tick" ELSE "frames"
                  /\ lastOp' = [op |-> "event", type |-> f.parsed.value.type,
                                toolCallId |-> ToolCallIdOf(f.parsed.value),
                                prevState |-> StateOf(toolInvocations,
                                                      ToolCallIdOf(f.parsed.value)),
                                effect |-> r.effect, chunk |-> f.parsed.value,
                                prevEditing |-> editingScreenId,
                                prevScreens |-> heap[screens],
                                prevHistory |-> Len(history)]
        /\ buffer' = f.rest
        /\ delivered' = Append(delivered, f.data)
        /\ nDispatched' = nDispatched + 1
        /\ calls' = CallsAfter(f.parsed.value.type, ToolCallIdOf(f.parsed.value))
        /\ UNCHANGED <<messages, isLoading, body, wire, pending, done, streamDone, splits,
                       serverVars, errors>>

SseNext ==
    \/ Submit
    \/ SubmitFailed
    \/ ReadChunk
    \/ ReadEnd
    \/ ReadFails
    \/ NoSeparator
    \/ SkipFrame
    \/ DoneFrame
    \/ BadFrame
    \/ ChunkFrame
    \/ Tick

SpecSSE == StoreSpecInit /\ [][SseNext]_vars

\* A started turn goes on: every reader.read() settles, and the tick a
\* handler awaited passes.
SseProgress ==
    \/ ReadChunk
    \/ ReadEnd
    \/ ReadFails
    \/ Tick

\* The inner loop goes on.  FrameStep gives one of break, continue, done and
\* chunk for every buffer, so inside the loop one of NoSeparator, SkipFrame,
\* DoneFrame, BadFrame and ChunkFrame is enabled, and their weak fairness is:
\* the turn is again and again outside the loop, or again and again takes a
\* step of it.
LoopProgress ==
    \/ []<>(pc # "frames")
    \/ []<><<pc = "frames">>_vars

SpecSSEFair == SpecSSE /\ WF_vars(SseProgress) /\ LoopProgress

\* parseSSEStream when the whole body arrives in one read: the payloads
\* handed to onChunk, the payloads reported to onError, and streamDone.
RECURSIVE RunFrames(_, _, _)
RunFrames(buf, dl, er) ==
    LET f == FrameStep(buf)
    IN  IF f.kind = "break" THEN [delivered |-> dl, errors |-> er, streamDone |-> FALSE]
        ELSE IF f.kind = "continue" THEN RunFrames(f.rest, dl, er)
        ELSE IF f.kind = "done" THEN [delivered |-> dl, errors |-> er, streamDone |-> TRUE]
        ELSE IF f.parsed.kind = "object" THEN RunFrames(f.rest, Append(dl, f.data), er)
        ELSE RunFrames(f.rest,
                       IF f.parsed.kind = "null" THEN Append(dl, f.data) ELSE dl,
                       Append(er, f.data))

SingleRead(b) == RunFrames(StripCR(Decode(<< >>, b).text), << >>, << >>)

-----------------------------------------------------------------------------
(* Calls of handleSubmit: composables/useChatAgent.ts *)

\* The response bodies of the turns below: none; and a comment frame, a null
\* payload, the early signal for s1 and [DONE].
SignalBody ==
    <<":", "k", "\n", "\n">> \o Frame(<<"null">>)
        \o Frame(Obj(<<"edit1">>)) \o Frame(DoneMark)

TurnBodies == {<< >>, SignalBody}

\* The user messages of the chat: one for each call that went on.
UserMessages == SelectSeq(messages, LAMBDA m : m.role = "user")

\* handleSubmit is called and returns at its guard.
HandleSubmitReturns ==
    \E text \in Inputs :
        /\ ~Accepts(text, isLoading)
        /\ lastOp' = [op |-> "handleSubmit", accepted |-> FALSE, input |-> text,
                      loading |-> isLoading, at |-> pc]
        /\ UNCHANGED <<storeVars, turnVars, sseVars, serverVars, delivered, errors,
                       priorScreens, rur, nDispatched, calls>>

\* handleSubmit is called and goes on: the user message is pushed, isLoading
\* is set, and the call awaits fetch.
HandleSubmitGoesOn ==
    \E text \in Inputs :
        /\ Accepts(text, isLoading)
        /\ Len(UserMessages) < MaxTurns
        /\ messages' = Append(messages, UserMessage(text))
        /\ isLoading' = TRUE
        /\ pc' = "fetch"
        /\ lastOp' = [op |-> "handleSubmit", accepted |-> TRUE, input |-> text,
                      loading |-> isLoading, at |-> pc]
        /\ UNCHANGED <<storeVars, content, toolInvocations, toolCallIdToScreenId,
                       sseVars, serverVars, delivered, errors, priorScreens, rur,
                       nDispatched, calls>>

\* fetch resolves with a response that is ok and has a body: the assistant
\* message is pushed and the decode loop starts.
Respond ==
    /\ pc = "fetch"
    /\ \E b \in TurnBodies : body' = b /\ wire' = b
    /\ pc' = "read"
    /\ messages' = Append(messages, AssistantMessage)
    /\ content' = << >>
    /\ toolInvocations' = << >>
    /\ toolCallIdToScreenId' = << >>
    /\ pending' = << >>
    /\ buffer' = << >>
    /\ done' = FALSE
    /\ streamDone' = FALSE
    /\ splits' = {}
    /\ lastOp' = [op |-> "submit"]
    /\ UNCHANGED <<storeVars, isLoading, serverVars, delivered, errors,
                   priorScreens, rur, nDispatched, calls>>

\* fetch rejects, or the response is not ok or has no body: the catch block,
\* then the finally block.
FetchFails ==
    /\ pc = "fetch"
    /\ pc' = "finished"
    /\ Finally
    /\ \E cause \in {"fetch rejected", "response not ok", "no body reader"} :
          lastOp' = [op |-> "failed", cause |-> cause]
    /\ UNCHANGED <<heap, screens, history, messages, content, toolInvocations,
                   toolCallIdToScreenId, sseVars, serverVars, delivered, errors,
                   priorScreens, rur, nDispatched, calls>>

SubmitNext ==
    \/ HandleSubmitReturns
    \/ HandleSubmitGoesOn
    \/ Respond
    \/ FetchFails
    \/ ReadChunk
    \/ ReadEnd
    \/ ReadFails
    \/ NoSeparator
    \/ SkipFrame
    \/ DoneFrame
    \/ BadFrame
    \/ ChunkFrame
    \/ Tick

SpecSubmit == StoreSpecInit /\ [][SubmitNext]_vars

-----------------------------------------------------------------------------
(* Early id extraction: server/api/chat.post.ts *)

\* Map.prototype.get(k) || '' on a Map<string, string>.
MapGetOrEmpty(m, k) == IF k \in DOMAIN m THEN m[k] ELSE << >>

\* The end of \s* started at i: the first position from i on that holds no
\* whitespace, Len(buf) + 1 when there is none.
SkipWhitespace(buf, i) ==
    CHOOSE j \in i..(Len(buf) + 1) :
        /\ j = Len(buf) + 1 \/ ~IsWhitespace(buf[j])
        /\ \A k \in i..(j - 1) : IsWhitespace(buf[k])

\* buf.indexOf('"', i), 1-based; 0 stands for -1.
IndexOfQuote(buf, i) ==
    IF \E j \in i..Len(buf) : buf[j] = "\""
    THEN CHOOSE j \in i..Len(buf) :
            buf[j] = "\"" /\ \A k \in i..(j - 1) : buf[k] # "\""
    ELSE 0

IdKey == <<"\"", "i", "d", "\"">>

\* /"id"\s*:\s*"([^"]+)"/ tried at position i: the captured group, the empty
\* sequence when the pattern does not match there.
MatchAt(buf, i) ==
    LET colon == SkipWhitespace(buf, i + Len(IdKey))
        open  == SkipWhitespace(buf, colon + 1)
        close == IndexOfQuote(buf, open + 1)
    IN  IF /\ i + Len(IdKey) - 1 <= Len(buf)
           /\ SubSeq(buf, i, i + Len(IdKey) - 1) = IdKey
           /\ colon <= Len(buf) /\ buf[colon] = ":"
           /\ open <= Len(buf) /\ buf[open] = "\""
           /\ close > open + 1
        THEN SubSeq(buf, open + 1, close - 1)
        ELSE << >>

\* updated.match(/"id"\s*:\s*"([^"]+)"/): group 1 of the leftmost match, the
\* empty sequence for null.
IdMatch(buf) ==
    IF \E i \in 1..Len(buf) : MatchAt(buf, i) # << >>
    THEN LET i == CHOOSE k \in 1..Len(buf) :
                     /\ MatchAt(buf, k) # << >>
                     /\ \A j \in 1..(k - 1) : MatchAt(buf, j) = << >>
         IN  MatchAt(buf, i)
    ELSE << >>

EditingStart(screenId, toolCallId) ==
    [type |-> "data-editing-start",
     data |-> [screenId |-> screenId, toolCallId |-> toolCallId],
     transient |-> TRUE]

\* onUpsertInputDelta without the test of sentEditingStart.
OnUpsertInputDeltaResult_NoLatch(buffers, sent, out, toolCallId, delta) ==
    LET updated == MapGetOrEmpty(buffers, toolCallId) \o delta
    IN  IF IdMatch(updated) # << >>
        THEN [buffers |-> MapSet(buffers, toolCallId, updated),
              sent |-> sent \cup {toolCallId},
              out |-> Append(out, EditingStart(IdMatch(updated), toolCallId))]
        ELSE [buffers |-> MapSet(buffers, toolCallId, updated),
              sent |-> sent, out |-> out]

\* onUpsertInputDelta with one buffer for all calls.
OnUpsertInputDeltaResult_OneBuffer(buffers, sent, out, toolCallId, delta) ==
    LET updated == MapGetOrEmpty(buffers, "call1") \o delta
        idMatch == IdMatch(updated)
    IN  IF toolCallId \notin sent /\ idMatch # << >>
        THEN [buffers |-> MapSet(buffers, "call1", updated),
              sent |-> sent \cup {toolCallId},
              out |-> Append(out, EditingStart(idMatch, toolCallId))]
        ELSE [buffers |-> MapSet(buffers, "call1", updated),
              sent |-> sent, out |-> out]

\* onUpsertInputDelta(toolCallId, delta): the buffers, the set of signalled
\* calls and the written parts afterwards.
OnUpsertInputDeltaResult(buffers, sent, out, toolCallId, delta) ==
    LET updated == MapGetOrEmpty(buffers, toolCallId) \o delta
        idMatch == IdMatch(updated)
    IN  IF toolCallId \notin sent /\ idMatch # << >>
        THEN [buffers |-> MapSet(buffers, toolCallId, updated),
              sent |-> sent \cup {toolCallId},
              out |-> Append(out, EditingStart(idMatch, toolCallId))]
        ELSE [buffers |-> MapSet(buffers, toolCallId, updated),
              sent |-> sent, out |-> out]

\* The pieces in which the argument text of an upsertScreen call arrives:
\*   "id"    : "a    b"    "id":"c"    \"    "id": "a
\* (\" is the escaped quote of a JSON string; the last piece is the first two
\* in one delta).
ArgDeltas ==
    { IdKey,
      <<":", " ", "\"", "a">>,
      <<"b", "\"">>,
      IdKey \o <<":", "\"", "c", "\"">>,
      <<"\\", "\"">>,
      IdKey \o <<":", " ", "\"", "a">> }

\* upsertScreen.onInputDelta: the agent runtime hands over one more piece of
\* the argument text of a call.
OnUpsertInputDelta ==
    \E toolCallId \in CallIds, delta \in ArgDeltas :
        LET r == OnUpsertInputDeltaResult(upsertInputBuffers, sentEditingStart,
                                          written, toolCallId, delta)
        IN  /\ nDeltas < MaxDeltas
            /\ upsertInputBuffers' = r.buffers
            /\ sentEditingStart' = r.sent
            /\ written' = r.out
            /\ nDeltas' = nDeltas + 1
            /\ inputDeltas' = Append(inputDeltas, [toolCallId |-> toolCallId,
                                                   inputTextDelta |-> delta])
            /\ lastOp' = [op |-> "inputDelta", toolCallId |-> toolCallId]
            /\ UNCHANGED <<storeVars, turnVars, sseVars, delivered, errors,
                           priorScreens, rur, nDispatched, calls,
                           requestScreens, toolResults>>

ServerNext == OnUpsertInputDelta

SpecServer == StoreSpecInit /\ [][ServerNext]_vars

-----------------------------------------------------------------------------
(* The tools of a request: server/utils/ai-tools.ts *)

\* const { messages, screens } = await readBody(event): an array of screens
\* as the client sent its screens.value, or a body without such an array.
RequestScreens ==
    { << >>,
      InitialScreens,
      InitialScreens \o << [id |-> "s1", name |-> "Login", html |-> "<div/>",
                            css |-> "", x |-> 550, y |-> 50] >> }

RequestBodies ==
    {[read |-> TRUE, isArray |-> TRUE, value |-> v] : v \in RequestScreens}
        \cup {[read |-> TRUE, isArray |-> FALSE]}

\* Array.isArray(screens) ? screens : []
ScreenList(req) == IF req.isArray THEN req.value ELSE << >>

\* listScreens.execute()
ListScreensResult(req) ==
    LET screenList == ScreenList(req)
    IN  [screens |-> [i \in 1..Len(screenList) |->
                        [id |-> screenList[i].id, name |-> screenList[i].name]]]

\* getScreen.execute({ id }) that answers from the screens upserted in this
\* request as well.
GetScreenResult_SeesUpserts(req, results, id) ==
    LET screenList == ScreenList(req)
        index == FindIndex(screenList, id)
        ups == SelectSeq(results, LAMBDA e : e.tool = "upsertScreen" /\ e.input.id = id)
    IN  IF ups # << >>
        THEN [found |-> TRUE, screen |-> ups[Len(ups)].output]
        ELSE IF index = 0 THEN [found |-> FALSE]
        ELSE [found |-> TRUE,
              screen |-> [id |-> screenList[index].id, name |-> screenList[index].name,
                          html |-> screenList[index].html, css |-> screenList[index].css]]

\* getScreen.execute({ id }); `results` are the executions before it.
GetScreenResult(req, results, id) ==
    LET screenList == ScreenList(req)
        index == FindIndex(screenList, id)
    IN  IF index = 0 THEN [found |-> FALSE]
        ELSE [found |-> TRUE,
              screen |-> [id |-> screenList[index].id, name |-> screenList[index].name,
                          html |-> screenList[index].html, css |-> screenList[index].css]]

\* upsertScreen.execute({ id, name, html, css })
UpsertExecuteResult(input) ==
    [id |-> input.id, name |-> input.name, html |-> input.html, css |-> input.css]

\* defineEventHandler up to createTools: the body was read.
ReadBody ==
    /\ ~requestScreens.read
    /\ requestScreens' \in RequestBodies
    /\ lastOp' = [op |-> "readBody"]
    /\ UNCHANGED <<storeVars, turnVars, sseVars, upsertInputBuffers,
                   sentEditingStart, written, nDeltas, inputDeltas, toolResults,
                   delivered, errors, priorScreens, rur, nDispatched, calls>>

\* The agent runtime executes a tool and gets `output`.
Executed(tool, input, output) ==
    /\ requestScreens.read
    /\ Len(toolResults) < MaxToolCalls
    /\ toolResults' = Append(toolResults,
                             [tool |-> tool, input |-> input, output |-> output])
    /\ lastOp' = [op |-> "execute", tool |-> tool]
    /\ UNCHANGED <<storeVars, turnVars, sseVars, upsertInputBuffers,
                   sentEditingStart, written, nDeltas, inputDeltas, requestScreens,
                   delivered, errors, priorScreens, rur, nDispatched, calls>>

ExecListScreens ==
    Executed("listScreens", << >>, ListScreensResult(requestScreens))

ExecGetScreen ==
    \E id \in ScreenIds :
        Executed("getScreen", [id |-> id],
                 GetScreenResult(requestScreens, toolResults, id))

ExecUpsertScreen ==
    \E input \in UpsertObjects :
        Executed("upsertScreen", input, UpsertExecuteResult(input))

ToolsNext ==
    \/ ReadBody
    \/ ExecListScreens
    \/ ExecGetScreen
    \/ ExecUpsertScreen

SpecTools == StoreSpecInit /\ [][ToolsNext]_vars

-----------------------------------------------------------------------------
(* Claims about the Document Store, checked under SpecStore *)

\* C5: upsertScreen with skipHistory = true leaves history.length unchanged;
\* upsertScreen without skipHistory increases it by exactly 1, whether the
\* id already exists or not.
C5_HistoryLength ==
    [][lastOp'.op = "upsertScreen" =>
          Len(history') = Len(history) + (IF lastOp'.skipHistory THEN 0 ELSE 1)]_vars

\* A placeholder upsert created a new screen after an upsert was recorded.
C5_Witness ==
    /\ lastOp.op = "upsertScreen"
    /\ lastOp.skipHistory
    /\ ~lastOp.existed
    /\ Len(history) >= 1

\* C6: the snapshot a history-recording upsert appends is value-equal to the
\* screen set as it was immediately before that upsert changed anything, so
\* history[i] is the screen set prior to the i-th recorded mutation.
C6_SnapshotBeforeMutate ==
    /\ Len(priorScreens) = Len(history)
    /\ \A i \in 1..Len(history) : Snapshot(i) = priorScreens[i]

\* A recorded upsert changed an existing screen: the snapshot it took differs
\* from the screen set it left.
C6_Witness ==
    /\ lastOp.op = "upsertScreen"
    /\ ~lastOp.skipHistory
    /\ lastOp.existed
    /\ Snapshot(Len(history)) # Live

\* C7: after restoreVersion(i), also when it follows restoreVersion(i) and an
\* upsert, or directly follows restoreVersion(i), the screen set is
\* value-equal to the snapshot history[i] as it was taken.
C7_RestoreIdempotent ==
    rur.stage \in {1, 3, 4} =>
        /\ Live = Snapshot(rur.index + 1)
        /\ Live = priorScreens[rur.index + 1]

\* restoreVersion(0), an upsert, restoreVersion(0), with two history entries
\* that differ.
C7_Witness ==
    /\ rur.stage = 3
    /\ rur.index = 0
    /\ Len(history) = 2
    /\ Snapshot(1) # Snapshot(2)

\* C8: history.length never decreases, and every entry that existed before an
\* operation has the same timestamp and the same screens after it.
C8_HistoryImmutable ==
    [][/\ Len(history') >= Len(history)
       /\ \A i \in 1..Len(history) :
            /\ history'[i].timestamp = history[i].timestamp
            /\ heap'[history'[i].screens] = heap[history[i].screens]]_vars

\* A snapshot was restored and the live screen set was then edited away from
\* it.
C8_Witness ==
    /\ rur.stage = 2
    /\ Len(history) = 2
    /\ Live # Snapshot(rur.index + 1)

\* C9: no two screens of the live screen set, and no two screens of any
\* history snapshot, share an id.
UniqueIds(arr) ==
    \A i, j \in 1..Len(arr) : i # j => arr[i].id # arr[j].id

C9_UniqueIds ==
    /\ UniqueIds(Live)
    /\ \A i \in 1..Len(history) : UniqueIds(Snapshot(i))

\* An upsert of an existing id with two screens live and two snapshots taken.
C9_Witness ==
    /\ lastOp.op = "upsertScreen"
    /\ lastOp.existed
    /\ Len(Live) = 2
    /\ Len(history) = 2
    /\ Len(Snapshot(2)) = 2

-----------------------------------------------------------------------------
(* Claims about the tool event handler, checked under SpecTurn *)

\* C1: tool results are applied to the Document Store exactly once per
\* toolCallId: a tool-output-available for a call that is already in state
\* result or error fires no Document Store side effect (the screen set and
\* the history stay as they are).
C1_AppliedOnce ==
    [][(/\ lastOp'.op = "event"
        /\ lastOp'.type = "tool-output-available"
        /\ lastOp'.prevState \in {"result", "error"})
       => /\ history' = history
          /\ heap'[screens'] = heap[screens]]_vars

\* C2: result and error are terminal: once an invocation is in state result
\* or error, no later event that references its toolCallId changes the
\* invocation (state, args, result, errorText).
InvocationOf(invs, toolCallId) ==
    LET inv == invs[FindInvocation(invs, toolCallId)]
    IN  [f \in (DOMAIN inv) \cap {"state", "args", "result", "errorText"} |-> inv[f]]

C2_TerminalStates ==
    [][(/\ lastOp'.op = "event"
        /\ lastOp'.toolCallId # "none"
        /\ lastOp'.prevState \in {"result", "error"})
       => InvocationOf(toolInvocations', lastOp'.toolCallId)
            = InvocationOf(toolInvocations, lastOp'.toolCallId)]_vars


-----------------------------------------------------------------------------
(* Claims about the decode loop and the turn, checked under SpecSSE *)

\* C3: however the reads cut the bytes of a body (inside a character, inside a
\* line, between the two newlines of a separator, or not at all), the decode
\* loop hands the same payloads in the same order to onChunk, reports the same
\* payloads to onError and stops at the same point as when the whole body
\* arrives in one read.
C3_ChunkingInvariant ==
    (pc = "finished" /\ lastOp.op = "end")
        => /\ delivered = SingleRead(body).delivered
           /\ errors = SingleRead(body).errors
           /\ streamDone = SingleRead(body).streamDone

C3_Witness ==
    /\ pc = "finished"
    /\ lastOp.op = "end"
    /\ splits = {"character", "separator", "line"}
    /\ Len(delivered) >= 3
    /\ errors # << >>
    /\ streamDone

\* C4: from an empty history, the body text-delta("Hi"),
\* tool-input-available(call1, upsertScreen, s1), tool-output-available(call1,
\* s1), [DONE] ends with content "Hi", exactly one invocation and it in state
\* result, a screen s1 carrying the output's html and css, and a history of
\* length exactly 1.
C4_EndToEnd ==
    (pc = "finished" /\ body = ScenarioBody /\ streamDone)
        => /\ content = <<"H", "i">>
           /\ Len(toolInvocations) = 1
           /\ toolInvocations[1].state = "result"
           /\ \E i \in 1..Len(Live) :
                 /\ Live[i].id = "s1"
                 /\ Live[i].html = ScenarioScreen.html
                 /\ Live[i].css = ScenarioScreen.css
           /\ Cardinality({i \in 1..Len(Live) : Live[i].id = "s1"}) = 1
           /\ Len(history) = 1

C4_Witness ==
    /\ pc = "finished"
    /\ body = ScenarioBody
    /\ streamDone
    /\ Len(delivered) = 3
    /\ Len(history) = 1

-----------------------------------------------------------------------------
(* Claims about the early id extraction, checked under SpecServer *)

\* The data-editing-start parts written for toolCallId, in order.
SignalsOf(toolCallId) ==
    SelectSeq(written, LAMBDA w : w.data.toolCallId = toolCallId)

\* C10: over any sequence of input deltas, at most one data-editing-start is
\* written per toolCallId; it carries the id of the first match in the
\* cumulative buffer; a later delta that brings a different "id" value writes
\* nothing more and leaves the signalled id as it is.
C10_Latched ==
    \A c \in CallIds :
        /\ Len(SignalsOf(c)) <= 1
        /\ (c \in sentEditingStart) <=> (Len(SignalsOf(c)) = 1)
        /\ Len(SignalsOf(c)) = 1 =>
              /\ SignalsOf(c)[1].data.screenId # << >>
              /\ SignalsOf(c)[1].data.screenId
                    = IdMatch(MapGetOrEmpty(upsertInputBuffers, c))

C10_Witness ==
    /\ MapGetOrEmpty(upsertInputBuffers, "call1")
          = IdKey \o <<":", " ", "\"", "a">> \o <<"b", "\"">>
                \o IdKey \o <<":", "\"", "c", "\"">>
    /\ Len(SignalsOf("call1")) = 1
    /\ SignalsOf("call1")[1].data.screenId = <<"a", "b">>
    /\ lastOp = [op |-> "inputDelta", toolCallId |-> "call1"]

-----------------------------------------------------------------------------
(* Claims about error handling of a call, checked under SpecTurn *)

\* The step hands one event of `type` that refers to toolCallId c to handleChunk.
EventStep(type, c) ==
    /\ nDispatched' = nDispatched + 1
    /\ lastOp'.op = "event"
    /\ lastOp'.type = type
    /\ lastOp'.toolCallId = c

C12_ErrorLeavesStore ==
    [][\A c \in CallIds :
          (/\ EventStep("tool-output-error", c)
           /\ c \in DOMAIN calls
           /\ calls[c].signalled
           /\ calls[c].alone)
          => /\ heap'[screens'] = calls[c].screens0
             /\ HistoryValue' = calls[c].history0]_vars

-----------------------------------------------------------------------------
(* Claims about the end of a turn, checked under SpecSSEFair *)

\* C13: whichever way a turn ends (the [DONE] mark, the reader exhausted, a
\* response that is not ok, no body reader, a read that throws), when
\* handleSubmit has finished the editing pointer is null, the designing flag
\* is false and isLoading is false; and, every read settling, every started
\* turn reaches that state.
C13_CleanupOnEveryExit ==
    /\ [](pc = "finished" =>
            /\ editingScreenId = Null
            /\ isDesigning = FALSE
            /\ isLoading = FALSE)
    /\ (pc \in {"read", "frames", "tick"}) ~> (pc = "finished")

C13_Witness ==
    /\ pc = "finished"
    /\ lastOp.op = "aborted"
    /\ "call1" \in DOMAIN toolCallIdToScreenId
    /\ wire # << >>
    /\ editingScreenId = Null
    /\ ~isDesigning
    /\ ~isLoading

-----------------------------------------------------------------------------
(* Claims about single events, checked under SpecTurn *)

\* C14: an event whose type the handler does not know is ignored: the step
\* that processes it leaves the assistant content, the invocations, the
\* toolCallId map, the screen set, the history, the editing pointer and the
\* designing flag as they were, reports nothing, and the turn goes on with
\* the next frame, so a run with it ends as the run without it.
C14_UnknownIgnored ==
    [][(/\ nDispatched' = nDispatched + 1
        /\ lastOp'.op = "event"
        /\ lastOp'.type = "foo-bar")
       => /\ content' = content
          /\ toolInvocations' = toolInvocations
          /\ toolCallIdToScreenId' = toolCallIdToScreenId
          /\ heap'[screens'] = heap[screens]
          /\ HistoryValue' = HistoryValue
          /\ editingScreenId' = editingScreenId
          /\ isDesigning' = isDesigning
          /\ errors' = errors
          /\ lastOp'.effect = "none"
          /\ pc' = "frames"]_vars

C14_Witness ==
    /\ lastOp.op = "event"
    /\ lastOp.type = "foo-bar"
    /\ pc = "frames"
    /\ content # << >>
    /\ toolInvocations # << >>
    /\ editingScreenId # Null
    /\ isDesigning
    /\ Len(heap[screens]) > 1

-----------------------------------------------------------------------------
(* Claims about single frames, checked under SpecSSE *)

\* C15: [DONE] is terminal.  The step that takes a frame whose payload is
\* [DONE] dispatches no event and reports no error; once it is taken the
\* turn has left both loops, so that no read is issued and no frame is
\* taken any more, also with bytes left on the transport or a whole frame
\* left in the buffer, and what was dispatched stays as it is.
C15_DoneIsTerminal ==
    /\ [](streamDone =>
            /\ pc = "finished"
            /\ ~ENABLED (ReadChunk \/ ReadEnd \/ ReadFails)
            /\ ~ENABLED (ChunkFrame \/ BadFrame \/ SkipFrame \/ NoSeparator))
    /\ [][streamDone' =>
            /\ delivered' = delivered
            /\ errors' = errors
            /\ nDispatched' = nDispatched
            /\ wire' = wire
            /\ toolInvocations' = toolInvocations
            /\ heap'[screens'] = heap[screens]
            /\ HistoryValue' = HistoryValue]_vars

C15_Witness ==
    /\ streamDone
    /\ body = MixedBody
    /\ FrameStep(buffer).kind = "chunk"
    /\ FrameStep(buffer).parsed.kind = "object"
    /\ delivered # << >>

\* C16: a frame whose payload does not parse is dropped there: the step
\* reports one error, for that payload, dispatches nothing, changes neither
\* the message, the invocations, the toolCallId map, the store nor the flags,
\* and leaves the turn in the frame loop with the rest of the buffer, so that
\* the frames after it are taken in order.
C16_ParseFailureIsLocal ==
    [][(/\ lastOp'.op = "onError"
        /\ pc = "frames"
        /\ FrameStep(buffer).kind = "chunk"
        /\ FrameStep(buffer).parsed.kind = "SyntaxError")
       => /\ errors' = Append(errors, FrameStep(buffer).data)
          /\ delivered' = delivered
          /\ nDispatched' = nDispatched
          /\ content' = content
          /\ toolInvocations' = toolInvocations
          /\ toolCallIdToScreenId' = toolCallIdToScreenId
          /\ heap'[screens'] = heap[screens]
          /\ HistoryValue' = HistoryValue
          /\ editingScreenId' = editingScreenId
          /\ isDesigning' = isDesigning
          /\ isLoading' = isLoading
          /\ streamDone' = streamDone
          /\ wire' = wire
          /\ buffer' = FrameStep(buffer).rest
          /\ pc' = "frames"]_vars

\* A turn that reported the payload {in1 and afterwards dispatched the frame
\* err1 that follows it in the body, and ended at [DONE].
C16_Witness ==
    /\ pc = "finished"
    /\ body = MixedBody
    /\ streamDone
    /\ \E i \in 1..Len(errors) : errors[i] = <<"{", "in1">>
    /\ delivered # << >>
    /\ delivered[Len(delivered)] = Obj(<<"err1">>)
    /\ isLoading = FALSE

-----------------------------------------------------------------------------
(* Claims about the invocations of a turn, checked under SpecTurn *)

\* The number of entries of the assistant message with this toolCallId.
EntriesOf(toolCallId) ==
    Cardinality({i \in 1..Len(toolInvocations) :
                    toolInvocations[i].toolCallId = toolCallId})

\* No entry is removed or moved: every entry keeps its place and toolCallId.
EntriesKept ==
    \A i \in 1..Len(toolInvocations) :
        /\ i <= Len(toolInvocations')
        /\ toolInvocations'[i].toolCallId = toolInvocations[i].toolCallId

\* C17, as amended: in every state of a turn, a toolCallId that appeared in a
\* tool-input-start, tool-input-available, tool-output-available or
\* tool-output-error processed so far has exactly one entry in the assistant
\* message, made by the first of these events whichever type it has; any
\* other toolCallId has none; no two entries share a toolCallId; and no
\* entry is removed during the turn.
C17_OneInvocationPerCall ==
    /\ [](\A c \in CallIds :
            EntriesOf(c) = IF c \in DOMAIN calls /\ calls[c].tracked THEN 1 ELSE 0)
    /\ [][EntriesKept]_vars

C17_Witness ==
    /\ Len(toolInvocations) = 2
    /\ nDispatched = MaxEvents
    /\ \A c \in CallIds : c \in DOMAIN calls /\ calls[c].tracked
    /\ calls["call1"].signalled
    /\ toolInvocations[1].state = "error"
    /\ "args" \notin DOMAIN toolInvocations[1]
    /\ toolInvocations[2].state = "result"

\* C17 as stated: every toolCallId that an event processed so far refers to,
\* data-editing-start included, has exactly one entry.
C17_EveryReferencedCall ==
    \A c \in CallIds : c \in DOMAIN calls => EntriesOf(c) = 1

\* C18: two calls whose events are interleaved do not interfere.  A step that
\* processes an event of one call, tool-output-error included, leaves the
\* invocation of every other call (toolName, state, args, result, errorText)
\* and its place as they were and leaves the turn in the decode loop, where
\* the events of the other call are still taken.  The store changes inside
\* the step of the event that asks for it and in no other step of the loop:
\* an upsertScreen output pushes the screen set of that moment, a placeholder
\* or a restoreVersion output leaves the history as it is, and any other
\* event leaves the store as it is; so the changes come in the order of the
\* events.
C18_CallsDoNotInterfere ==
    [][(nDispatched' = nDispatched + 1 /\ lastOp'.op = "event")
       => /\ \A i \in 1..Len(toolInvocations) :
                toolInvocations[i].toolCallId # lastOp'.toolCallId
                    => /\ i <= Len(toolInvocations')
                       /\ toolInvocations'[i] = toolInvocations[i]
          /\ pc' \in {"frames", "tick"}
          /\ lastOp'.effect = "none"
                => heap'[screens'] = heap[screens] /\ HistoryValue' = HistoryValue
          /\ lastOp'.effect \in {"placeholder", "restoreVersion"}
                => HistoryValue' = HistoryValue
          /\ lastOp'.effect = "upsertScreen"
                => /\ Len(HistoryValue') = Len(HistoryValue) + 1
                   /\ HistoryValue'[Len(HistoryValue')].screens = heap[screens]
                   /\ \A i \in 1..Len(HistoryValue) :
                         HistoryValue'[i] = HistoryValue[i]]_vars
    /\ [][pc = "tick" => (heap'[screens'] = heap[screens]
                            /\ HistoryValue' = HistoryValue
                            /\ toolInvocations' = toolInvocations)]_vars

\* The error of call2 was processed while call1 was open with its arguments,
\* and the turn can take further events.
C18_Witness ==
    /\ lastOp.op = "event"
    /\ lastOp.type = "tool-output-error"
    /\ lastOp.toolCallId = "call2"
    /\ FindInvocation(toolInvocations, "call1") > 0
    /\ FindInvocation(toolInvocations, "call2") > 0
    /\ InvocationOf(toolInvocations, "call1").state = "call"
    /\ "args" \in DOMAIN InvocationOf(toolInvocations, "call1")
    /\ InvocationOf(toolInvocations, "call2").state = "error"
    /\ pc = "frames"
    /\ nDispatched < MaxEvents

-----------------------------------------------------------------------------
(* Claims about single store operations, checked under SpecStore *)

\* C19: restoreVersion with an index for which the history has no entry (a
\* negative one, history.length or more, or undefined) does nothing: the
\* call returns, screens.value is the same array with the same screens, and
\* the history has the same entries.
C19_RestoreMissIsNoOp ==
    [][(lastOp'.op = "restoreVersion" /\ ~lastOp'.valid)
       => /\ screens' = screens
          /\ heap'[screens'] = heap[screens]
          /\ history' = history
          /\ HistoryValue' = HistoryValue]_vars

\* restoreVersion(history.length) was called with one entry in the history
\* and a screen set that differs from that entry.
C19_Witness ==
    /\ lastOp.op = "restoreVersion"
    /\ ~lastOp.valid
    /\ "index" \in DOMAIN lastOp
    /\ lastOp.index = Len(history)
    /\ Len(history) = 1
    /\ heap[screens] # HistoryValue[1].screens

\* C20: upsertScreen with the id of a screen of the set merges into that
\* screen: each property the argument has takes the argument's value, each
\* property it does not have (of name, html, css, x, y) keeps its value, the
\* screen keeps its place in the set, and every other screen is as it was.
C20_ShallowMerge ==
    [][(lastOp'.op = "upsertScreen" /\ lastOp'.existed)
       => LET arg   == lastOp'.screen
              index == FindIndex(heap[screens], arg.id)
              old   == heap[screens]
              new   == heap'[screens']
          IN  /\ Len(new) = Len(old)
              /\ \A j \in 1..Len(old) : j # index => new[j] = old[j]
              /\ DOMAIN new[index] = DOMAIN old[index]
              /\ \A f \in DOMAIN old[index] :
                    new[index][f] = IF f \in DOMAIN arg THEN arg[f]
                                    ELSE old[index][f]]_vars

\* upsertScreen({ id: 'welcome', html }) was called on a set of two screens:
\* welcome is still the first, with the new html and its name and place.
C20_Witness ==
    /\ lastOp.op = "upsertScreen"
    /\ lastOp.existed
    /\ lastOp.screen = [id |-> "welcome", html |-> "<div/>"]
    /\ Len(heap[screens]) = 2
    /\ heap[screens][1].id = "welcome"
    /\ heap[screens][1].html = "<div/>"
    /\ heap[screens][1].name = "Welcome Screen"
    /\ heap[screens][1].x = 100
    /\ heap[screens][2].id = "s1"

-----------------------------------------------------------------------------
(* Claims about the side effects of single events, checked under SpecTurn *)

\* The screens of arr with this id.
ScreensWithId(arr, id) == {i \in 1..Len(arr) : arr[i].id = id}

\* C21: the output is the source of truth.  Right after tool-output-available
\* was processed for a call of upsertScreen in state call, with the output
\* { id, name, html, css }, the screen set has exactly one screen with the
\* output's id and its name, html and css are the output's, whatever
\* placeholder or early id came before; the history has grown by exactly
\* one; the editing pointer is null and the designing flag is false.
C21_OutputIsTruth ==
    [][\A c \in CallIds :
          (/\ EventStep("tool-output-available", c)
           /\ FindInvocation(toolInvocations, c) > 0
           /\ toolInvocations[FindInvocation(toolInvocations, c)].toolName = "upsertScreen"
           /\ toolInvocations[FindInvocation(toolInvocations, c)].state = "call")
          => LET output == toolInvocations'[FindInvocation(toolInvocations', c)].result
                 new    == heap'[screens']
             IN  /\ Cardinality(ScreensWithId(new, output.id)) = 1
                 /\ \A i \in ScreensWithId(new, output.id) :
                       /\ new[i].name = output.name
                       /\ new[i].html = output.html
                       /\ new[i].css = output.css
                 /\ Len(history') = Len(history) + 1
                 /\ editingScreenId' = Null
                 /\ isDesigning' = FALSE]_vars

\* The output for s1 arrived after an early signal that named another screen
\* and after the placeholder "Designing..." had been put on it.
C21_Witness ==
    /\ lastOp.op = "event"
    /\ lastOp.type = "tool-output-available"
    /\ lastOp.toolCallId = "call1"
    /\ lastOp.prevState = "call"
    /\ lastOp.effect = "upsertScreen"
    /\ calls["call1"].signalled
    /\ InvocationOf(toolInvocations, "call1").result.id = "s1"
    /\ \E i \in 1..Len(heap[screens]) :
          heap[screens][i].id = "welcome" /\ heap[screens][i].name = "Designing..."
    /\ Len(history) = 1

\* C22: a stream-level error event fails the turn and triggers the cleanup:
\* the step that processes it leaves the editing pointer null and the
\* designing flag false and ends the turn, so that no later event of the
\* stream is dispatched.
C22_ErrorEventFailsTurn ==
    [][EventStep("error", "none")
       => /\ editingScreenId' = Null
          /\ isDesigning' = FALSE
          /\ isLoading' = FALSE
          /\ pc' = "finished"]_vars

\* C23: tool-input-available for a call of upsertScreen whose input.id is a
\* string.  After the event the invocation is in state call with the input
\* as its args, the screen set has a screen with input.id, the editing
\* pointer is input.id and the history is as it was; when a screen with that
\* id was there (put there by an early signal, say) the screen set has as
\* many screens as before, and when none was there one is added with
\* input.id, the input's name, empty html and css; no other screen changes.
C23_InputAvailablePlaceholder ==
    [][\A c \in CallIds :
          LET at    == FindInvocation(toolInvocations', c)
              input == lastOp'.chunk.input
              old   == heap[screens]
              new   == heap'[screens']
          IN  (/\ EventStep("tool-input-available", c)
               /\ toolInvocations'[at].toolName = "upsertScreen"
               /\ IsString(input, "id"))
              => /\ toolInvocations'[at].state = "call"
                 /\ toolInvocations'[at].args = input
                 /\ Cardinality(ScreensWithId(new, input.id)) = 1
                 /\ editingScreenId' = input.id
                 /\ toolCallIdToScreenId'[c] = input.id
                 /\ HistoryValue' = HistoryValue
                 /\ \A j \in 1..Len(old) : old[j].id # input.id => new[j] = old[j]
                 /\ IF ScreensWithId(old, input.id) # {}
                    THEN Len(new) = Len(old)
                    ELSE /\ new = Append(old, new[Len(new)])
                         /\ new[Len(new)].id = input.id
                         /\ new[Len(new)].name = IF IsString(input, "name") THEN input.name
                                                  ELSE "Untitled Screen"
                         /\ new[Len(new)].html = ""
                         /\ new[Len(new)].css = ""]_vars

\* tool-input-available for s1 was processed after the early signal for s1
\* had put the placeholder there: still two screens.
C23_Witness ==
    /\ lastOp.op = "event"
    /\ lastOp.type = "tool-input-available"
    /\ lastOp.toolCallId = "call1"
    /\ lastOp.effect = "placeholder"
    /\ lastOp.chunk.input.id = "s1"
    /\ calls["call1"].signalled
    /\ Len(calls["call1"].screens0) = 1
    /\ Len(heap[screens]) = 2
    /\ editingScreenId = "s1"
    /\ history = << >>

-----------------------------------------------------------------------------
(* Claims about interleaved input deltas, checked under SpecServer *)

\* The deltas of toolCallId among the calls of onInputDelta, joined in order.
RECURSIVE OwnText(_, _)
OwnText(log, toolCallId) ==
    IF log = << >> THEN << >>
    ELSE LET e == log[Len(log)]
             before == OwnText(SubSeq(log, 1, Len(log) - 1), toolCallId)
         IN  IF e.toolCallId = toolCallId THEN before \o e.inputTextDelta
             ELSE before

\* onUpsertInputDelta called for the deltas of toolCallId only, from empty
\* buffers: the buffers, the signalled calls and the written parts.
RECURSIVE AloneResult(_, _)
AloneResult(log, toolCallId) ==
    IF log = << >> THEN [buffers |-> << >>, sent |-> {}, out |-> << >>]
    ELSE LET e == log[Len(log)]
             before == AloneResult(SubSeq(log, 1, Len(log) - 1), toolCallId)
         IN  IF e.toolCallId = toolCallId
             THEN OnUpsertInputDeltaResult(before.buffers, before.sent, before.out,
                                           toolCallId, e.inputTextDelta)
             ELSE before

\* C24: the argument text is kept per call.  However the deltas of several
\* calls are interleaved, the buffer of each call is the text of its own
\* deltas joined in the order they came, whether an early signal is written
\* for a call and with which id is as if only that call's deltas had come,
\* and a delta changes no invocation.
C24_PerCallAccumulation ==
    /\ [](\A c \in CallIds :
            /\ MapGetOrEmpty(upsertInputBuffers, c) = OwnText(inputDeltas, c)
            /\ SignalsOf(c) = AloneResult(inputDeltas, c).out
            /\ (c \in sentEditingStart) <=> (c \in AloneResult(inputDeltas, c).sent))
    /\ [][nDeltas' = nDeltas + 1 => toolInvocations' = toolInvocations]_vars

\* Deltas of the two calls came in turns; call1 was signalled with the id ab
\* that its own three deltas spell, call2 has the key only and no signal.
C24_Witness ==
    /\ Len(inputDeltas) = 5
    /\ \A i \in 1..4 : inputDeltas[i].toolCallId # inputDeltas[i + 1].toolCallId
    /\ Len(SignalsOf("call1")) = 1
    /\ SignalsOf("call1")[1].data.screenId = <<"a", "b">>
    /\ upsertInputBuffers["call1"] = IdKey \o <<":", " ", "\"", "a", "b", "\"">>
    /\ SignalsOf("call2") = << >>
    /\ upsertInputBuffers["call2"] = IdKey \o IdKey

-----------------------------------------------------------------------------
(* Further claims about the side effects of single events, under SpecTurn *)

\* C25: tool-output-available for a call of restoreVersion with the output
\* { index: i }.  When history[i] exists the screen set becomes value-equal
\* to the screens of history[i]; in every case the history is as it was (the
\* replaced screens are not recorded), and so are the editing pointer and
\* the designing flag.
C25_RestoreOutput ==
    [][\A c \in CallIds :
          (/\ EventStep("tool-output-available", c)
           /\ FindInvocation(toolInvocations, c) > 0
           /\ toolInvocations[FindInvocation(toolInvocations, c)].toolName
                 = "restoreVersion")
          => LET i == lastOp'.chunk.output.index
             IN  /\ HasVersion(history, i)
                       => heap'[screens'] = HistoryValue[i + 1].screens
                 /\ ~HasVersion(history, i) => heap'[screens'] = heap[screens]
                 /\ HistoryValue' = HistoryValue
                 /\ editingScreenId' = editingScreenId
                 /\ isDesigning' = isDesigning]_vars

\* restoreVersion's output { index: 0 } was processed after an upsertScreen
\* output had added s1: the screen set is the recorded one again, and the
\* history still has its one entry.
C25_Witness ==
    /\ lastOp.op = "event"
    /\ lastOp.type = "tool-output-available"
    /\ lastOp.effect = "restoreVersion"
    /\ lastOp.chunk.output.index = 0
    /\ Len(history) = 1
    /\ heap[screens] = HistoryValue[1].screens
    /\ heap[screens] = InitialScreens
    /\ \E k \in 1..Len(toolInvocations) :
          /\ toolInvocations[k].toolName = "upsertScreen"
          /\ toolInvocations[k].state = "result"
          /\ toolInvocations[k].result.id = "s1"

\* Every screen of the set is in the set afterwards, where it was placed.
PositionsKept ==
    \A i \in 1..Len(heap[screens]) :
        \E j \in 1..Len(heap'[screens']) :
            /\ heap'[screens'][j].id = heap[screens][i].id
            /\ heap'[screens'][j].x = heap[screens][i].x
            /\ heap'[screens'][j].y = heap[screens][i].y

\* C26: x and y of a screen are given when the screen is created and no
\* later upsert that an event asks for (a placeholder's or an output's, which
\* carry no x and y) changes them: in a turn, only the step in which
\* restoreVersion replaces the screen set may change the place of a screen.
C26_PositionsFixed ==
    [][\/ /\ nDispatched' = nDispatched + 1
          /\ lastOp'.op = "event"
          /\ lastOp'.effect = "restoreVersion"
       \/ PositionsKept]_vars

\* s1 was created by the placeholder of an early signal and then upserted
\* by tool-input-available and by the output of the call: it is where it
\* was put at first.
C26_Witness ==
    /\ lastOp.op = "event"
    /\ lastOp.type = "tool-output-available"
    /\ lastOp.effect = "upsertScreen"
    /\ lastOp.toolCallId = "call1"
    /\ lastOp.chunk.output.id = "s1"
    /\ calls["call1"].signalled
    /\ calls["call1"].alone
    /\ Len(calls["call1"].screens0) = 1
    /\ "args" \in DOMAIN InvocationOf(toolInvocations, "call1")
    /\ Len(heap[screens]) = 2
    /\ heap[screens][2].id = "s1"
    /\ heap[screens][2].html = "<div/>"
    /\ heap[screens][2].x = 550
    /\ heap[screens][2].y = 50

-----------------------------------------------------------------------------
(* Claims about the creation of a screen, checked under SpecStore *)

\* What C27 says of the array `new` that upsertScreen(arg) made of `old`
\* when old has no screen with arg.id and arg has no x and y.
CreatedAsStated(old, new, arg) ==
    /\ Len(new) = Len(old) + 1
    /\ \A i \in 1..Len(old) : new[i] = old[i]
    /\ LET created == new[Len(new)]
       IN  /\ created.id = arg.id
           /\ created.y = 50
           /\ created.x >= 50
           /\ \A i \in 1..Len(old) : created.x >= old[i].x + 450
           /\ \/ created.x = 50
              \/ \E i \in 1..Len(old) : created.x = old[i].x + 450
           /\ old = << >> => created.x = 50
           /\ created.name = IF "name" \in DOMAIN arg THEN arg.name
                              ELSE "Untitled Screen"
           /\ created.html = IF "html" \in DOMAIN arg THEN arg.html ELSE ""
           /\ created.css = IF "css" \in DOMAIN arg THEN arg.css ELSE ""

\* Screen sets of up to two screens, placed also left of the origin and not
\* in the order of their x.
PlacedAt(id, x) ==
    [id |-> id, name |-> "Login", html |-> "", css |-> "", x |-> x, y |-> 100]
PlacedXs == {-500, 0, 100, 550}
PlacedSets ==
    {<< >>} \cup {<<PlacedAt("a", x)>> : x \in PlacedXs}
            \cup {<<PlacedAt("a", x1), PlacedAt("b", x2)>> : x1, x2 \in PlacedXs}

\* C27: a screen that upsertScreen creates without x and y gets y = 50 and
\* x = max(0, the greatest s.x + 400 of the screens there) + 50, which is 50
\* for an empty screen set and otherwise at least 450 more than the x of
\* every screen there; a name that is not given is 'Untitled Screen', html
\* and css that are not given are the empty string.
C27_AutoPosition ==
    /\ [](\A old \in PlacedSets, arg \in PartialScreens :
            CreatedAsStated(old, ApplyUpsert(old, arg), arg))
    /\ [][(lastOp'.op = "upsertScreen" /\ ~lastOp'.existed)
           => CreatedAsStated(heap[screens], heap'[screens'], lastOp'.screen)]_vars

\* upsertScreen({ id: 's1', html }) created s1 next to welcome.
C27_Witness ==
    /\ lastOp.op = "upsertScreen"
    /\ ~lastOp.existed
    /\ lastOp.screen = [id |-> "s1", html |-> "<div/>"]
    /\ Len(heap[screens]) = 2
    /\ heap[screens][2]
          = [id |-> "s1", name |-> "Untitled Screen", html |-> "<div/>",
             css |-> "", x |-> 550, y |-> 50]

-----------------------------------------------------------------------------
(* Claims about the assistant message of a turn, checked under SpecTurn *)

\* What a step makes of the content: an event appends its delta when it is a
\* text-delta and nothing otherwise; the end of the stream removes the
\* whitespace at the end and nothing else; the submit starts from the empty
\* text; no other step changes it.
ContentStep ==
    IF nDispatched' = nDispatched + 1
    THEN content' = content \o (IF lastOp'.type = "text-delta"
                                THEN lastOp'.chunk.delta ELSE << >>)
    ELSE IF pc = "frames" /\ pc' = "finished"
    THEN /\ Len(content') <= Len(content)
         /\ content' = SubSeq(content, 1, Len(content'))
         /\ \A i \in (Len(content') + 1)..Len(content) : IsWhitespace(content[i])
         /\ content' # << >> => ~IsWhitespace(content'[Len(content')])
    ELSE IF pc = "idle" THEN content' = << >>
    ELSE content' = content

\* C28, as amended: the content of the assistant message is the deltas of
\* the text-delta events joined in the order they came, and at the end of a
\* turn that ends with the stream it is that text without the whitespace at
\* its end; the invocations of the message are in the order in which their
\* toolCallIds were first referred to by a tool-input-start,
\* tool-input-available, tool-output-available or tool-output-error event.
C28_MessageOrder ==
    /\ [][ContentStep]_vars
    /\ [](\A c \in DOMAIN calls :
            calls[c].tracked
                => /\ calls[c].trackedAt \in 1..Len(toolInvocations)
                   /\ toolInvocations[calls[c].trackedAt].toolCallId = c)

\* The turn ended with the content "Hi" of the deltas "Hi" and " ", and with
\* the invocations of call2 and call1 in the order of their first events.
C28_Witness ==
    /\ pc = "finished"
    /\ lastOp.op = "end"
    /\ content = <<"H", "i">>
    /\ nDispatched = MaxEvents
    /\ Len(toolInvocations) = 2
    /\ toolInvocations[1].toolCallId = "call2"
    /\ toolInvocations[2].toolCallId = "call1"
    /\ calls["call2"].trackedAt = 1
    /\ calls["call1"].trackedAt = 2

\* C28 as stated: at the end of the turn the invocations are in the order in
\* which their toolCallIds were first referred to by any event,
\* data-editing-start included.
C28_OrderOfFirstMention ==
    pc = "finished"
        => \A i, j \in 1..Len(toolInvocations) :
              i < j => calls[toolInvocations[i].toolCallId].mentioned
                          < calls[toolInvocations[j].toolCallId].mentioned

-----------------------------------------------------------------------------
(* Claims about the order of the decode loop, checked under SpecSSE *)

\* a is the beginning of b.
IsPrefix(a, b) == Len(a) <= Len(b) /\ a = SubSeq(b, 1, Len(a))

\* C29: after a placeholder upsert (on data-editing-start, or on
\* tool-input-available for upsertScreen) the loop waits for one tick.  The
\* step of such an event leaves the placeholder in the screen set and the
\* editing pointer on it and the turn waiting; the only step of a waiting
\* turn is the tick, which takes no frame, issues no read and changes
\* nothing, also with whole frames in the buffer, and gives the turn back to
\* the frame loop; and the payloads are handed over one at a time in the
\* order of the body.
C29_YieldAfterPlaceholder ==
    /\ [][(nDispatched' = nDispatched + 1 /\ lastOp'.effect = "placeholder")
           => /\ pc' = "tick"
              /\ editingScreenId' # Null
              /\ ScreensWithId(heap'[screens'], editingScreenId') # {}]_vars
    /\ [](pc = "tick" => ENABLED Tick)
    /\ [][pc = "tick"
           => /\ pc' = "frames"
              /\ UNCHANGED <<storeVars, isLoading, content, toolInvocations,
                             toolCallIdToScreenId, sseVars, delivered, errors,
                             nDispatched>>]_vars
    /\ [][\/ delivered' = delivered
          \/ /\ Len(delivered') = Len(delivered) + 1
             /\ IsPrefix(delivered, delivered')]_vars
    /\ [](IsPrefix(delivered, SingleRead(body).delivered))

\* The turn waits for the tick after the early signal of call1 while the
\* frame with the output of call1 is whole in the buffer.
C29_Witness ==
    /\ pc = "tick"
    /\ lastOp.type = "data-editing-start"
    /\ lastOp.toolCallId = "call1"
    /\ editingScreenId = "s1"
    /\ ScreensWithId(heap[screens], "s1") # {}
    /\ FrameStep(buffer).kind = "chunk"
    /\ FrameStep(buffer).parsed.kind = "object"
    /\ FrameStep(buffer).parsed.value.type = "tool-output-available"
    /\ FrameStep(buffer).parsed.value.toolCallId = "call1"

\* C30: line ends do not change the framing.  For a body b whose lines end
\* in \n, the turn that reads the same body with \r\n line ends, however the
\* reads cut it (between \r and \n too), hands over the payloads of b in
\* their order and nothing else, reports what b has reported, and stops
\* where b stops.
C30_LineEndings ==
    \A p \in CrlfPairs :
        body = p.crlf
            => /\ IsPrefix(delivered, SingleRead(p.lf).delivered)
               /\ IsPrefix(errors, SingleRead(p.lf).errors)
               /\ (pc = "finished" /\ lastOp.op = "end")
                     => /\ delivered = SingleRead(p.lf).delivered
                        /\ errors = SingleRead(p.lf).errors
                        /\ streamDone = SingleRead(p.lf).streamDone

\* The scenario with \r\n line ends was read to [DONE] with a read that
\* ended between a \r and its \n: the three payloads were handed over.
C30_Witness ==
    /\ body \in CrlfBodies
    /\ StripCR(body) = ScenarioBody
    /\ pc = "finished"
    /\ lastOp.op = "end"
    /\ "crlf" \in splits
    /\ "separator" \in splits
    /\ streamDone
    /\ Len(delivered) = 3
    /\ delivered[3] = Obj(<<"out1">>)

-----------------------------------------------------------------------------
(* Claims about the editing pointer of a turn, checked under SpecTurn *)

\* The toolName of the invocation of toolCallId, Undefined when there is none.
ToolNameOf(invs, toolCallId) ==
    LET e == FindInvocation(invs, toolCallId)
    IN  IF e > 0 THEN invs[e].toolName ELSE Undefined

\* C31: the editing pointer and the designing flag are single values shared
\* by all calls of a turn.  The step that processes tool-output-available or
\* tool-output-error for an upsertScreen call leaves the pointer null and the
\* flag false, whatever the pointer was and whichever call had set it, also
\* with another upsertScreen call still in state call; and no step takes the
\* pointer from null to a screen id but one that processes a
\* data-editing-start or a tool-input-available.
C31_SharedPointer ==
    /\ [][\A c \in CallIds :
            (/\ \/ EventStep("tool-output-available", c)
                \/ EventStep("tool-output-error", c)
             /\ ToolNameOf(toolInvocations', c) = "upsertScreen")
            => /\ editingScreenId' = Null
               /\ isDesigning' = FALSE]_vars
    /\ [][(editingScreenId = Null /\ editingScreenId' # Null)
            => /\ lastOp'.op = "event"
               /\ nDispatched' = nDispatched + 1
               /\ lastOp'.type \in {"data-editing-start", "tool-input-available"}]_vars

\* tool-output-error of the upsertScreen call call1 was processed while the
\* pointer was on the screen s1 of call2, an upsertScreen call still in state
\* call whose entry in the toolCallId map is s1, and whose screen is another
\* one than call1's: the pointer is null and the flag false.
C31_Witness ==
    /\ lastOp.op = "event"
    /\ lastOp.type = "tool-output-error"
    /\ lastOp.toolCallId = "call1"
    /\ ToolNameOf(toolInvocations, "call1") = "upsertScreen"
    /\ "args" \in DOMAIN toolInvocations[FindInvocation(toolInvocations, "call1")]
    /\ "id" \in DOMAIN toolInvocations[FindInvocation(toolInvocations, "call1")].args
    /\ toolInvocations[FindInvocation(toolInvocations, "call1")].args.id = "welcome"
    /\ ToolNameOf(toolInvocations, "call2") = "upsertScreen"
    /\ StateOf(toolInvocations, "call2") = "call"
    /\ "call2" \in DOMAIN toolCallIdToScreenId
    /\ toolCallIdToScreenId["call2"] = "s1"
    /\ lastOp.prevEditing = "s1"
    /\ editingScreenId = Null
    /\ isDesigning = FALSE

-----------------------------------------------------------------------------
(* Claims about placeholders on existing screens, checked under SpecTurn *)

\* The screen a placeholder event is stated to upsert.
PlaceholderOf(chunk) ==
    IF chunk.type = "data-editing-start"
    THEN [id |-> chunk.data.screenId, name |-> "Designing..."]
    ELSE [id |-> chunk.input.id,
          name |-> IF IsString(chunk.input, "name") THEN chunk.input.name
                   ELSE "Untitled Screen"]

\* C32: a placeholder upsert that targets a screen that is already there
\* overwrites its name ('Designing...' on data-editing-start; input.name, or
\* 'Untitled Screen' when input.name is no string, on tool-input-available),
\* leaves its html, css, x and y and every other screen as they were, and
\* records no history entry.  When tool-output-error of the same call is
\* processed next, the screen set stays as the placeholder left it, with the
\* overwritten name, and the history is as long as it was before the
\* placeholder: no snapshot was recorded that could hold the previous name.
C32_PlaceholderOverwritesName ==
    /\ [][(/\ nDispatched' = nDispatched + 1
           /\ lastOp'.op = "event"
           /\ lastOp'.effect = "placeholder"
           /\ ScreensWithId(heap[screens], PlaceholderOf(lastOp'.chunk).id) # {})
          => LET p   == PlaceholderOf(lastOp'.chunk)
                 old == heap[screens]
                 new == heap'[screens']
             IN  /\ Len(new) = Len(old)
                 /\ \A i \in 1..Len(old) :
                       new[i] = IF old[i].id = p.id
                                THEN [old[i] EXCEPT !.name = p.name]
                                ELSE old[i]
                 /\ HistoryValue' = HistoryValue]_vars
    /\ [][\A c \in CallIds :
            (/\ lastOp.op = "event"
             /\ lastOp.effect = "placeholder"
             /\ lastOp.toolCallId = c
             /\ ScreensWithId(lastOp.prevScreens, PlaceholderOf(lastOp.chunk).id) # {}
             /\ EventStep("tool-output-error", c))
            => LET p == PlaceholderOf(lastOp.chunk)
               IN  /\ heap'[screens'] = heap[screens]
                   /\ \A i \in ScreensWithId(heap'[screens'], p.id) :
                         heap'[screens'][i].name = p.name
                   /\ ScreensWithId(heap'[screens'], p.id) # {}
                   /\ Len(history') = lastOp.prevHistory
                   /\ HistoryValue' = HistoryValue]_vars

\* call1, the only call of the turn so far, got a data-editing-start for the
\* welcome screen and then tool-output-error: the welcome screen is called
\* 'Designing...', has its html and position, and the history is empty.
C32_Witness ==
    /\ lastOp.op = "event"
    /\ lastOp.type = "tool-output-error"
    /\ lastOp.toolCallId = "call1"
    /\ calls["call1"].signalled
    /\ calls["call1"].alone
    /\ calls["call1"].screens0 = InitialScreens
    /\ Live = << [InitialScreens[1] EXCEPT !.name = "Designing..."] >>
    /\ history = << >>
    /\ lastOp.prevScreens = Live

-----------------------------------------------------------------------------
(* Claims about the life of a placeholder, checked under SpecTurn *)

\* The ids of the screens of an array.
IdsOf(arr) == {arr[i].id : i \in 1..Len(arr)}

\* C33: the event handler never removes a screen, so a screen made by a
\* skipHistory placeholder upsert stays.  The step that processes
\* tool-output-error and the end-of-turn cleanup leave the screen set as it
\* is; after tool-output-available of an upsertScreen call whose output.id is
\* another id than the placeholder's, both screens are there; and a step
\* after which a screen is gone is a restoreVersion to a history entry whose
\* snapshot lacks that screen.
C33_PlaceholdersStay ==
    /\ [][\A id \in IdsOf(heap[screens]) \ IdsOf(heap'[screens']) :
            /\ lastOp'.op = "event"
            /\ nDispatched' = nDispatched + 1
            /\ lastOp'.effect = "restoreVersion"
            /\ HasVersion(history, lastOp'.chunk.output.index)
            /\ id \notin IdsOf(Snapshot(lastOp'.chunk.output.index + 1))]_vars
    /\ [][\A c \in CallIds :
            EventStep("tool-output-error", c) => heap'[screens'] = heap[screens]]_vars
    /\ [][pc' = "finished" => heap'[screens'] = heap[screens]]_vars
    /\ [][\A c \in CallIds :
            (/\ EventStep("tool-output-available", c)
             /\ lastOp'.effect = "upsertScreen"
             /\ c \in DOMAIN toolCallIdToScreenId
             /\ toolCallIdToScreenId[c] \in IdsOf(heap[screens])
             /\ toolCallIdToScreenId[c] # lastOp'.chunk.output.id)
            => /\ toolCallIdToScreenId[c] \in IdsOf(heap'[screens'])
               /\ lastOp'.chunk.output.id \in IdsOf(heap'[screens'])
               /\ \A i \in ScreensWithId(heap[screens], toolCallIdToScreenId[c]) :
                     heap'[screens'][i] = heap[screens][i]]_vars

\* A finished turn in which call1, alone, got a data-editing-start for s1,
\* which made the placeholder, and then a tool-output-available for the
\* welcome screen: the placeholder s1 is still there, as the placeholder
\* upsert made it, next to the welcome screen that carries the output.
C33_Witness ==
    /\ pc = "finished"
    /\ "call1" \in DOMAIN calls
    /\ calls["call1"].signalled
    /\ calls["call1"].alone
    /\ calls["call1"].screens0 = InitialScreens
    /\ StateOf(toolInvocations, "call1") = "result"
    /\ "id" \in DOMAIN toolInvocations[FindInvocation(toolInvocations, "call1")].result
    /\ toolInvocations[FindInvocation(toolInvocations, "call1")].result.id = "welcome"
    /\ Len(Live) = 2
    /\ Live[1].id = "welcome"
    /\ Live[1].html = "<div/>"
    /\ Live[2] = [id |-> "s1", name |-> "Designing...", html |-> "", css |-> "",
                  x |-> 550, y |-> 50]
    /\ Len(history) = 1
    /\ IdsOf(Snapshot(1)) = {"welcome"}

-----------------------------------------------------------------------------
(* Claims about the end of the input, checked under SpecSSE *)

\* The frames of a text that a blank line terminates, in order, and what is
\* left behind the last of them.
RECURSIVE TerminatedFrames(_)
TerminatedFrames(text) ==
    LET i == IndexOfSeparator(text)
    IN  IF i = 0 THEN << >>
        ELSE <<SubSeq(text, 1, i - 1)>> \o TerminatedFrames(SubSeq(text, i + 2, Len(text)))

RECURSIVE UnterminatedTail(_)
UnterminatedTail(text) ==
    LET i == IndexOfSeparator(text)
    IN  IF i = 0 THEN text ELSE UnterminatedTail(SubSeq(text, i + 2, Len(text)))

\* The payload of a frame: its data lines joined; none for a frame without.
PayloadOf(rawEvent) ==
    LET dataLines == SelectSeq(Split(rawEvent), StartsWithData)
    IN  [none |-> dataLines = << >>,
         data |-> Join([k \in 1..Len(dataLines) |->
                          TrimStart(SubSeq(dataLines[k], Len(DataPrefix) + 1,
                                           Len(dataLines[k])))])]

\* The payloads of the terminated frames of a text, up to the sentinel.
PayloadsBeforeSentinel(text) ==
    LET frames == TerminatedFrames(text)
        all == [k \in 1..Len(frames) |-> PayloadOf(frames[k])]
        ps  == SelectSeq(all, LAMBDA p : ~p.none)
        isDone(k) == ps[k].data = DoneMark
        n   == IF \E k \in 1..Len(ps) : isDone(k)
               THEN (CHOOSE k \in 1..Len(ps) :
                        isDone(k) /\ \A j \in 1..(k - 1) : ~isDone(j)) - 1
               ELSE Len(ps)
    IN  [k \in 1..n |-> ps[k].data]

\* For each body of the model: the text it decodes to, the payloads of its
\* terminated frames before the sentinel that parse, whether it has a
\* sentinel frame, and the text behind its last separator.
EndOfInput ==
    [b \in Bodies |->
        LET text == StripCR(Decode(<< >>, b).text)
        IN  [events |-> SelectSeq(PayloadsBeforeSentinel(text),
                                  LAMBDA d : JsonParse(d).kind # "SyntaxError"),
             sentinel |-> \E k \in 1..Len(TerminatedFrames(text)) :
                             LET p == PayloadOf(TerminatedFrames(text)[k])
                             IN  ~p.none /\ p.data = DoneMark,
             tail |-> UnterminatedTail(text)]]

\* C34: what is in the buffer when the reader reports done is discarded.  The
\* step that takes the end of the input hands nothing to onChunk, reports
\* nothing and leaves the buffer; at every moment the payloads handed to
\* onChunk are a prefix of the payloads of the frames of the body that a
\* separator terminates (before the sentinel); and when the turn has ended
\* they are exactly these, the text behind the last separator still lying in
\* the buffer when the input ended without a sentinel.
C34_UnterminatedFrameDropped ==
    /\ [][(pc = "read" /\ pc' = "finished" /\ lastOp'.op = "end")
            => /\ delivered' = delivered
               /\ errors' = errors
               /\ nDispatched' = nDispatched
               /\ buffer' = buffer
               /\ toolInvocations' = toolInvocations
               /\ heap'[screens'] = heap[screens]]_vars
    /\ [](pc # "idle" => IsPrefix(delivered, EndOfInput[body].events))
    /\ []((pc = "finished" /\ lastOp.op = "end")
            => /\ delivered = EndOfInput[body].events
               /\ streamDone = EndOfInput[body].sentinel
               /\ ~streamDone => buffer = EndOfInput[body].tail)

\* The turn over the body that ends inside the frame {fail} has ended with
\* the reader exhausted: the five frames before it were dispatched, the text
\* of the last frame lies in the buffer, and no error event was handled.
C34_Witness ==
    /\ pc = "finished"
    /\ lastOp.op = "end"
    /\ body = TruncatedBody
    /\ ~streamDone
    /\ done
    /\ buffer = DataPrefix \o <<" ">> \o Obj(<<"fail">>)
    /\ JsonParse(PayloadOf(buffer).data).kind = "object"
    /\ Len(delivered) = 5
    /\ nDispatched = 5
    /\ errors = << >>

-----------------------------------------------------------------------------
(* Claims about the tools of a request, checked under SpecTools *)

\* The request's screen array holds a screen with this id.
InRequest(id) ==
    /\ requestScreens.isArray
    /\ \E i \in 1..Len(requestScreens.value) : requestScreens.value[i].id = id

\* C35: within a request listScreens and getScreen answer from the screen
\* array of the request body only.  No execution changes that array; every
\* getScreen(id) of the request has found = true exactly when the array holds
\* a screen with that id, and then answers with that screen's id, name, html
\* and css; every listScreens answers with the ids and names of the array;
\* so an upsertScreen executed before changes no answer, and getScreen(id)
\* for an id that only an upsertScreen of this request brought has
\* found = false.
C35_ToolsReadRequestOnly ==
    /\ [][requestScreens.read => requestScreens' = requestScreens]_vars
    /\ [](\A k \in 1..Len(toolResults) :
            LET e == toolResults[k]
            IN  /\ e.tool = "getScreen" =>
                     /\ e.output.found <=> InRequest(e.input.id)
                     /\ e.output.found =>
                           \E i \in 1..Len(requestScreens.value) :
                              LET r == requestScreens.value[i]
                              IN  e.output.screen = [id |-> e.input.id, name |-> r.name,
                                                     html |-> r.html, css |-> r.css]
                     /\ \A j \in 1..(k - 1) :
                           (/\ toolResults[j].tool = "upsertScreen"
                            /\ toolResults[j].input.id = e.input.id
                            /\ ~InRequest(e.input.id))
                           => ~e.output.found
                /\ e.tool = "listScreens" =>
                     /\ Len(e.output.screens) = Len(ScreenList(requestScreens))
                     /\ \A i \in 1..Len(e.output.screens) :
                           /\ e.output.screens[i].id = requestScreens.value[i].id
                           /\ e.output.screens[i].name = requestScreens.value[i].name
                /\ \A j \in 1..(k - 1) :
                      (toolResults[j].tool = e.tool /\ toolResults[j].input = e.input)
                         => toolResults[j].output = e.output)

\* A request with the welcome screen only: upsertScreen for s1 was executed,
\* then getScreen(s1) answered found = false and getScreen(welcome) answered
\* with the html the request carried.
C35_Witness ==
    /\ requestScreens = [read |-> TRUE, isArray |-> TRUE, value |-> InitialScreens]
    /\ Len(toolResults) >= 3
    /\ toolResults[1].tool = "upsertScreen"
    /\ toolResults[1].input.id = "s1"
    /\ toolResults[2] = [tool |-> "getScreen", input |-> [id |-> "s1"],
                         output |-> [found |-> FALSE]]
    /\ toolResults[3].tool = "getScreen"
    /\ toolResults[3].input.id = "welcome"
    /\ toolResults[3].output.found
    /\ toolResults[3].output.screen.html = WelcomeHtml

-----------------------------------------------------------------------------
(* Claims about the calls of handleSubmit, checked under SpecSubmit *)

\* The positions of a handleSubmit that went on and has not run its finally
\* block: awaiting fetch, awaiting a read, in the frame loop, awaiting a tick.
InFlight == pc \in {"fetch", "read", "frames", "tick"}

\* C36: at most one turn is in flight.  A call of handleSubmit while
\* isLoading is true, or with an input that is empty, returns and changes
\* neither the messages, the request state, the store nor anything of the
\* running turn; isLoading is true exactly from the moment a call goes on
\* until its finally block has run; a call goes on only when no turn is in
\* flight; and the screen set and the history change only in a step of the
\* one decode loop in flight that hands an event to the handler.
C36_OneTurnInFlight ==
    /\ [][(/\ lastOp' # lastOp
           /\ lastOp'.op = "handleSubmit"
           /\ (lastOp'.loading \/ Trim(lastOp'.input) = << >>))
          => /\ ~lastOp'.accepted
             /\ UNCHANGED <<storeVars, turnVars, sseVars, serverVars, delivered,
                            errors, priorScreens, rur, nDispatched, calls>>]_vars
    /\ [](isLoading <=> InFlight)
    /\ [][Len(UserMessages') > Len(UserMessages)
          => /\ ~isLoading
             /\ ~InFlight
             /\ isLoading'
             /\ Len(UserMessages') = Len(UserMessages) + 1]_vars
    /\ [][(heap'[screens'] # heap[screens] \/ HistoryValue' # HistoryValue)
          => /\ isLoading /\ pc = "frames"
             /\ nDispatched' = nDispatched + 1
             /\ messages' = messages]_vars

\* handleSubmit was called with the input "go" while the second turn of the
\* chat was suspended at the tick after its placeholder upsert, and returned:
\* the messages are those of two turns, and the turn awaits its tick.
C36_Witness ==
    /\ lastOp.op = "handleSubmit"
    /\ ~lastOp.accepted
    /\ lastOp.loading
    /\ lastOp.input = <<"g", "o">>
    /\ lastOp.at = "tick"
    /\ pc = "tick"
    /\ isLoading
    /\ Len(UserMessages) = 2
    /\ Len(messages) = 4
    /\ editingScreenId = "s1"

-----------------------------------------------------------------------------
(* Claims about the chunking of the argument text, checked under SpecServer *)

\* The opening quote of the value of the first "id" member of the text: the
\* end of the leftmost "id"\s*:\s*" ; 0 when there is none.
IdOpenQuote(buf) ==
    LET openAt(i) == SkipWhitespace(buf, SkipWhitespace(buf, i + Len(IdKey)) + 1)
        keyAt(i)  == /\ i + Len(IdKey) - 1 <= Len(buf)
                     /\ SubSeq(buf, i, i + Len(IdKey) - 1) = IdKey
                     /\ SkipWhitespace(buf, i + Len(IdKey)) <= Len(buf)
                     /\ buf[SkipWhitespace(buf, i + Len(IdKey))] = ":"
                     /\ openAt(i) <= Len(buf)
                     /\ buf[openAt(i)] = "\""
    IN  IF \E i \in 1..Len(buf) : keyAt(i)
        THEN openAt(CHOOSE i \in 1..Len(buf) :
                        keyAt(i) /\ \A j \in 1..(i - 1) : ~keyAt(j))
        ELSE 0

\* The id of the argument text as far as it has been streamed: absent, still
\* being streamed (its closing quote, a quote that no backslash escapes, has
\* not arrived), or complete.
StreamedId(buf) ==
    LET open == IdOpenQuote(buf)
        closes(j) == buf[j] = "\"" /\ buf[j - 1] # "\\"
    IN  IF open = 0 THEN [state |-> "absent"]
        ELSE IF \E j \in (open + 1)..Len(buf) : closes(j)
        THEN [state |-> "complete",
              text |-> SubSeq(buf, open + 1,
                              (CHOOSE j \in (open + 1)..Len(buf) :
                                  closes(j) /\ \A k \in (open + 1)..(j - 1) : ~closes(k)) - 1)]
        ELSE [state |-> "streaming", text |-> SubSeq(buf, open + 1, Len(buf))]

\* Two calls that have received the same argument text, however it was cut
\* into deltas, have both no signal or both one signal with the same id.
SameTextSameSignal ==
    \A c, d \in CallIds :
        MapGetOrEmpty(upsertInputBuffers, c) = MapGetOrEmpty(upsertInputBuffers, d)
            => /\ Len(SignalsOf(c)) = Len(SignalsOf(d))
               /\ Len(SignalsOf(c)) <= 1
               /\ Len(SignalsOf(c)) = 1 =>
                     SignalsOf(c)[1].data.screenId = SignalsOf(d)[1].data.screenId

\* C37: the early-extraction result depends on the concatenated argument text
\* only, not on how it is cut into deltas; and a signal is written only once
\* the closing quote of the id has arrived, so the signalled id is not empty
\* and is the complete id, never a part of an id that is still being
\* streamed.
C37_ChunkingIndependentId ==
    /\ SameTextSameSignal
    /\ \A c \in CallIds :
          Len(SignalsOf(c)) = 1 =>
              /\ SignalsOf(c)[1].data.screenId # << >>
              /\ StreamedId(MapGetOrEmpty(upsertInputBuffers, c)).state = "complete"
              /\ StreamedId(MapGetOrEmpty(upsertInputBuffers, c)).text
                    = SignalsOf(c)[1].data.screenId

-----------------------------------------------------------------------------
(* The inlined loop of useChatAgent.ts: the switch over chunk.type stands in
   the try block itself, and its tool-output-available case calls the store
   without looking at the output first. *)

\* if (!input.value || isLoading.value) return
AcceptsInline(text, loading) == ~(text = << >> \/ loading)

\* case 'tool-output-available' of the inlined switch.  With an output it
\* runs the statements of OnToolOutputAvailable.  Without one,
\* upsertScreen(undefined) pushes its history entry and then throws in the
\* findIndex callback on screen.id (with no screen to visit it pushes a
\* screen of defaults instead), and restoreVersion(invocation.result.index)
\* throws on the index of undefined; the assignments to the invocation were
\* made before either.
OnToolOutputAvailableInline(st, chunk, t) ==
    IF "output" \in DOMAIN chunk
    THEN Spread(OnToolOutputAvailable(st, chunk, t), [threw |-> FALSE])
    ELSE LET g   == GetOrCreateInvocation(st.toolInvocations, chunk.toolCallId,
                                          Undefined)
             inv == Spread(g.invs[g.at], [state |-> "result", result |-> Undefined])
             s1  == Spread([st EXCEPT !.toolInvocations =
                                         [g.invs EXCEPT ![g.at] = inv]],
                           [threw |-> FALSE])
         IN  IF inv.toolName = "upsertScreen"
             THEN LET p == PushHistory(s1.heap, s1.screens, s1.history, t, FALSE)
                      c == Collect(p.heap, s1.screens, p.history)
                      d == Collect([p.heap EXCEPT ![s1.screens] =
                                      <<[name |-> "Untitled Screen", html |-> "",
                                         css |-> "", x |-> 50, y |-> 50]>>],
                                   s1.screens, p.history)
                  IN  IF p.heap[s1.screens] # << >>
                      THEN [s1 EXCEPT !.heap = c.heap,
                                      !.screens = c.screens,
                                      !.history = c.history,
                                      !.effect = "threw",
                                      !.threw = TRUE]
                      ELSE [s1 EXCEPT !.heap = d.heap,
                                      !.screens = d.screens,
                                      !.history = d.history,
                                      !.toolCallIdToScreenId =
                                          MapDelete(@, chunk.toolCallId),
                                      !.editingScreenId = Null,
                                      !.isDesigning = FALSE,
                                      !.effect = "upsertScreen"]
             ELSE IF inv.toolName = "restoreVersion"
             THEN [s1 EXCEPT !.effect = "threw", !.threw = TRUE]
             ELSE s1

\* The switch of the try block; its other cases are those of handleChunk.
HandleChunkInline(st, chunk, t) ==
    IF chunk.type = "tool-output-available"
    THEN OnToolOutputAvailableInline(st, chunk, t)
    ELSE Spread(HandleChunk(st, chunk, t), [threw |-> FALSE])

\* Responses whose tool-output-available events carry no output: one to the
\* screen tool, with frames before and after it, and one to the restore tool
\* in a body that ends without the termination mark.
UpsertThrowBody ==
    <<":", "k", "\n", "\n">>
    \o Frame(Obj(<<"start1">>))
    \o Frame(Obj(<<"bare1">>))
    \o Frame(<<"null">>)
    \o Frame(Obj(<<"edit1">>))
    \o Frame(Obj(Str(<<"H", "i">>)))
    \o Frame(DoneMark)

RestoreThrowBody ==
    Frame(Obj(<<"in2">>))
    \o Frame(Obj(<<"bare2">>))
    \o Frame(Obj(Str(<<"H", "i">>)))

InlineBodies == {UpsertThrowBody, RestoreThrowBody}

\* handleSubmit of useChatAgent.ts up to the first read.
SubmitInline ==
    /\ pc = "idle"
    /\ \E text \in Inputs :
          /\ AcceptsInline(text, isLoading)
          /\ messages' = messages \o <<UserMessage(text), AssistantMessage>>
    /\ \E b \in InlineBodies : body' = b /\ wire' = b
    /\ pc' = "read"
    /\ isLoading' = TRUE
    /\ content' = << >>
    /\ toolInvocations' = << >>
    /\ toolCallIdToScreenId' = << >>
    /\ pending' = << >>
    /\ buffer' = << >>
    /\ done' = FALSE
    /\ streamDone' = FALSE
    /\ splits' = {}
    /\ lastOp' = [op |-> "submit"]
    /\ UNCHANGED <<storeVars, serverVars, delivered, errors, priorScreens, rur,
                   nDispatched, calls>>

\* The try block whose throw undoes what the case had done before it.
ChunkFrameInline_RollsBack ==
    \E f \in {FrameStep(buffer)} :
        /\ pc = "frames"
        /\ f.kind = "chunk"
        /\ f.parsed.kind = "object"
        /\ \E t \in Timestamps :
              \E r0 \in {HandleChunkInline(HandlerState, f.parsed.value, t)} :
                \E r \in {IF r0.threw
                          THEN Spread(HandlerState, [threw |-> TRUE])
                          ELSE r0} :
                  /\ Commit(r)
                  /\ pc' = IF r.awaited THEN "tick" ELSE "frames"
                  /\ errors' = IF r.threw THEN Append(errors, f.data) ELSE errors
                  /\ lastOp' = [op |-> "event", type |-> f.parsed.value.type,
                                toolCallId |-> ToolCallIdOf(f.parsed.value),
                                prevState |-> StateOf(toolInvocations,
                                                      ToolCallIdOf(f.parsed.value)),
                                effect |-> r.effect, chunk |-> f.parsed.value,
                                prevEditing |-> editingScreenId,
                                prevScreens |-> heap[screens],
                                prevHistory |-> Len(history),
                                threw |-> r.threw]
        /\ buffer' = f.rest
        /\ delivered' = Append(delivered, f.data)
        /\ nDispatched' = nDispatched + 1
        /\ calls' = CallsAfter(f.parsed.value.type, ToolCallIdOf(f.parsed.value))
        /\ UNCHANGED <<messages, isLoading, body, wire, pending, done, streamDone,
                       splits, serverVars>>

\* The try block on a parsed object: the case of the switch runs to its end,
\* to its await nextTick(), or to a throw; the catch block reports the throw
\* with the payload and the inner loop goes on.
ChunkFrameInline ==
    \E f \in {FrameStep(buffer)} :
        /\ pc = "frames"
        /\ f.kind = "chunk"
        /\ f.parsed.kind = "object"
        /\ \E t \in Timestamps :
              \E r \in {HandleChunkInline(HandlerState, f.parsed.value, t)} :
                  /\ Commit(r)
                  /\ pc' = IF r.awaited THEN "tick" ELSE "frames"
                  /\ errors' = IF r.threw THEN Append(errors, f.data) ELSE errors
                  /\ lastOp' = [op |-> "event", type |-> f.parsed.value.type,
                                toolCallId |-> ToolCallIdOf(f.parsed.value),
                                prevState |-> StateOf(toolInvocations,
                                                      ToolCallIdOf(f.parsed.value)),
                                effect |-> r.effect, chunk |-> f.parsed.value,
                                prevEditing |-> editingScreenId,
                                prevScreens |-> heap[screens],
                                prevHistory |-> Len(history),
                                threw |-> r.threw]
        /\ buffer' = f.rest
        /\ delivered' = Append(delivered, f.data)
        /\ nDispatched' = nDispatched + 1
        /\ calls' = CallsAfter(f.parsed.value.type, ToolCallIdOf(f.parsed.value))
        /\ UNCHANGED <<messages, isLoading, body, wire, pending, done, streamDone,
                       splits, serverVars>>

InlineNext ==
    \/ SubmitInline
    \/ ReadChunk
    \/ ReadEnd
    \/ NoSeparator
    \/ SkipFrame
    \/ DoneFrame
    \/ BadFrame
    \/ ChunkFrameInline
    \/ Tick

SpecInline == StoreSpecInit /\ [][InlineNext]_vars

-----------------------------------------------------------------------------
(* C38 *)

\* The payload of the frame at the head of the buffer.
HeadPayload == FrameStep(buffer).data

\* C38: an exception thrown after the payload of a frame was parsed is
\* caught where a JSON parse failure is caught.  Whether the payload parsed
\* to null or a case of the switch threw part-way, the step reports the
\* frame's payload as one more error, exactly as the step of a payload that
\* is not JSON does; it leaves the loop inside the turn with the frame
\* consumed, the turn still loading and the stream not marked done; and what
\* the case had done before the throw stays done: the invocation is in state
\* "result", and when it belongs to the screen tool the history has one more
\* entry, which holds the screens as they were.  A payload that parsed to
\* null changes nothing of the store or of the message.
C38_ThrowIsCaughtAsParseFailure ==
    /\ [][(/\ lastOp' # lastOp
           /\ lastOp'.op = "event"
           /\ lastOp'.threw)
          => /\ errors' = Append(errors, HeadPayload)
             /\ buffer' = FrameStep(buffer).rest
             /\ pc' = "frames"
             /\ isLoading' /\ ~streamDone'
             /\ messages' = messages
             /\ StateOf(toolInvocations', lastOp'.toolCallId) = "result"
             /\ Len(toolInvocations') >= Len(toolInvocations)
             /\ content' = content
             /\ heap'[screens'] = heap[screens]
             /\ (ToolNameOf(toolInvocations', lastOp'.toolCallId) = "upsertScreen"
                   => /\ Len(history') = Len(history) + 1
                      /\ heap'[history'[Len(history')].screens] = heap[screens]
                      /\ SubSeq(HistoryValue', 1, Len(history)) = HistoryValue)
             /\ (ToolNameOf(toolInvocations', lastOp'.toolCallId) = "restoreVersion"
                   => HistoryValue' = HistoryValue)]_vars
    /\ [][(/\ lastOp' # lastOp
           /\ lastOp'.op = "onError")
          => /\ errors' = Append(errors, HeadPayload)
             /\ buffer' = FrameStep(buffer).rest
             /\ pc' = "frames"
             /\ isLoading' /\ ~streamDone'
             /\ UNCHANGED <<storeVars, turnVars>>]_vars
    /\ [][(/\ lastOp' # lastOp
           /\ lastOp'.op = "event"
           /\ ~lastOp'.threw)
          => errors' = errors]_vars

\* A turn ended by the termination mark in which the screen tool's output
\* event threw, a null payload followed, and the frames after them were
\* handled: both payloads were reported, the invocation is a result, the
\* history entry made before the throw is there, the placeholder of the later
\* frame is on the canvas and the text of the last frame is the content.
C38_Witness ==
    /\ pc = "finished"
    /\ streamDone
    /\ body = UpsertThrowBody
    /\ errors = <<Obj(<<"bare1">>), <<"null">>>>
    /\ StateOf(toolInvocations, "call1") = "result"
    /\ Len(history) = 1
    /\ \E i \in 1..Len(heap[screens]) : heap[screens][i].id = "s1"
    /\ content = <<"H", "i">>
    /\ nDispatched = 4

=============================================================================
